---- MODULE Spec2Model ----
(***************************************************************************)
(* Model of the staged-mutation archive engine of SuperNewRolesLauncher:   *)
(*   - utils/migration.rs : .snrdata container, export, import with        *)
(*     per-file backup and rollback;                                       *)
(*   - services/snr_service.rs : promote_staging_to_profile, install,      *)
(*     SaveData import and uninstall-with-preserve.                        *)
(* Files are functions from relative paths to contents; a path outside the *)
(* domain does not exist.  Every fallible filesystem call of the source is *)
(* a nondeterministic choice between success and failure.                  *)
(***************************************************************************)
EXTENDS Integers, Sequences, FiniteSets, TLC

(* ---------------------------------------------------------------- bounds *)
\* Password characters are 1..MaxPwChar; the empty password is <<>>.
MaxPwChar == 2
\* Filesystem calls the environment may make fail in one run.
MaxFaults == 2

\* File contents: two distinguishable one-byte files.
FileData == {<<1>>, <<2>>}
\* What File::create leaves behind when the following io::copy fails.
TruncatedData == <<>>

(* ------------------------------------------------------- generic helpers *)
Restrict(f, S) == [x \in S |-> f[x]]
Merge(f, g) == [x \in (DOMAIN f) \cup (DOMAIN g) |-> IF x \in DOMAIN g THEN g[x] ELSE f[x]]
EmptyFs == [x \in {} |-> <<>>]
AllFs(paths, datas) == UNION {[S -> datas] : S \in SUBSET paths}

RECURSIVE ByteSum(_)
ByteSum(bs) == IF bs = <<>> THEN 0 ELSE (Head(bs) + ByteSum(Tail(bs))) % 256

StartsWith(bs, prefix) ==
    /\ Len(bs) >= Len(prefix)
    /\ SubSeq(bs, 1, Len(prefix)) = prefix

(* ------------------------------------------------------------ path model *)
\* A path is a sequence of components; ".." is ParentDir and "/" is RootDir.
PROFILE_ARCHIVE_PREFIX == "profile"
LOCALLOW_ARCHIVE_PREFIX == "locallow"

\* Profile-relative paths.  ManagedRels are the ones matched by at least one
\* configured inclusion regex (compile_profile_patterns); "u" matches none.
ManagedRels == {<<"a">>, <<"b">>}
UnmanagedRels == {<<"u">>}
ProfileRels == ManagedRels \cup UnmanagedRels
\* The configured LocalLow root, relative to the LocalLow directory.
locallow_relative_root_path == <<"SNR">>
\* Files that may exist under <LocalLow>/<root>, relative to <LocalLow>.
LocalLowRels == {<<"SNR", "x">>}

\* Every entry name that occurs in an archive of the model; the zip encoding
\* stores the index of the name.
PathTable == <<
    <<"profile", "a">>,
    <<"profile", "b">>,
    <<"profile", "u">>,
    <<"locallow", "SNR", "x">>,
    <<"locallow", "Other", "y">>,
    <<"misc", "z">>,
    <<"..", "..", "evil.dll">>,
    <<"profile", "dir">>,
    <<"/", "abs">>,
    <<"locallow", "SNR", "..", "..", "evil.dll">> >>

PathIndex(p) == CHOOSE i \in 1..Len(PathTable) : PathTable[i] = p

\* pattern.is_match(relative_normalized) for any configured pattern
MatchesProfilePattern(rel) == rel \in ManagedRels

\* A directory listing in a fixed order (read_dir order is left to the OS;
\* the model lists by table index).
RECURSIVE SortedByIndex(_)
SortedByIndex(S) ==
    IF S = {} THEN <<>>
    ELSE LET m == CHOOSE p \in S : \A q \in S : PathIndex(p) <= PathIndex(q)
         IN <<m>> \o SortedByIndex(S \ {m})

\* zip::read::ZipFile::enclosed_name: None (FALSE here) for a name with a
\* root component or with a ".." that climbs above the archive root.
RECURSIVE DepthOk(_, _)
DepthOk(path, depth) ==
    IF path = <<>> THEN TRUE
    ELSE IF Head(path) = "/" THEN FALSE
    ELSE IF Head(path) = ".." THEN depth > 0 /\ DepthOk(Tail(path), depth - 1)
    ELSE DepthOk(Tail(path), depth + 1)

enclosed_name(path) == DepthOk(path, 0)

\* A relative path as the operating system resolves it: ".." steps to the
\* parent, and stays in front when it climbs above the starting directory.
RECURSIVE NormalizeFrom(_, _)
NormalizeFrom(done, path) ==
    IF path = <<>> THEN done
    ELSE IF Head(path) = ".."
    THEN NormalizeFrom(IF done # <<>> /\ done[Len(done)] # ".."
                       THEN SubSeq(done, 1, Len(done) - 1) ELSE Append(done, ".."),
                       Tail(path))
    ELSE NormalizeFrom(Append(done, Head(path)), Tail(path))
Normalize(path) == NormalizeFrom(<<>>, path)

is_locallow_entry_allowed(rel) == StartsWith(rel, locallow_relative_root_path)

\* resolve_entry_target: [ok |-> FALSE] is None; otherwise the category and
\* the path relative to the category's root.
resolve_entry_target(path) ==
    IF path = <<>> \/ Head(path) \in {"..", "/"} \/ Tail(path) = <<>>
    THEN [ok |-> FALSE]
    ELSE IF Head(path) = PROFILE_ARCHIVE_PREFIX
    THEN IF MatchesProfilePattern(Tail(path))
         THEN [ok |-> TRUE, is_profile_target |-> TRUE, rel |-> Tail(path)]
         ELSE [ok |-> FALSE]
    ELSE IF Head(path) = LOCALLOW_ARCHIVE_PREFIX
    THEN IF is_locallow_entry_allowed(Tail(path))
         THEN [ok |-> TRUE, is_profile_target |-> FALSE, rel |-> Tail(path)]
         ELSE [ok |-> FALSE]
    ELSE [ok |-> FALSE]

(* -------------------------------------------------------------- zip codec *)
\* The zip crate is an external library: an archive is the signature "PK"
\* followed, per entry, by <<name index, directory flag, length>> and the data.
ZipEntry(name, dir, data) == [name |-> name, dir |-> dir, data |-> data]

RECURSIVE EncodeEntries(_)
EncodeEntries(es) ==
    IF es = <<>> THEN <<>>
    ELSE LET e == Head(es)
         IN <<PathIndex(e.name), IF e.dir THEN 1 ELSE 0, Len(e.data)>>
                \o e.data \o EncodeEntries(Tail(es))

ZipWriterFinish(es) == <<80, 75>> \o EncodeEntries(es)

BadZip == [ok |-> FALSE, entries |-> <<>>]

RECURSIVE DecodeEntries(_)
DecodeEntries(bs) ==
    IF bs = <<>> THEN [ok |-> TRUE, entries |-> <<>>]
    ELSE IF \/ Len(bs) < 3
            \/ bs[1] \notin 1..Len(PathTable)
            \/ bs[2] \notin {0, 1}
            \/ bs[3] < 0
            \/ Len(bs) < 3 + bs[3]
    THEN BadZip
    ELSE LET rest == DecodeEntries(SubSeq(bs, 4 + bs[3], Len(bs)))
             e == ZipEntry(PathTable[bs[1]], bs[2] = 1, SubSeq(bs, 4, 3 + bs[3]))
         IN IF rest.ok THEN [ok |-> TRUE, entries |-> <<e>> \o rest.entries]
            ELSE BadZip

\* ZipArchive::new
ZipArchiveNew(bs) ==
    IF StartsWith(bs, <<80, 75>>) THEN DecodeEntries(SubSeq(bs, 3, Len(bs)))
    ELSE BadZip

(* -------------------------------------------------- container and crypto *)
LEGACY_ARCHIVE_MAGIC == <<83, 78, 82, 68, 65, 84, 65, 49>>
\* mod_profile::get().migration.magic: a configuration value.
archive_magic_bytes == <<83, 78, 82, 77>>
ARCHIVE_VERSION == 1
CONTAINER_FLAG_ENCRYPTED == 1
ENCRYPTION_SALT_LEN == 16
ENCRYPTION_NONCE_LEN == 24

\* Option<String>: {} is None, {s} is Some(s); a string is a sequence of
\* characters and <<>> is the empty string.
PwChars == 1..MaxPwChar
Passwords == {<<c>> : c \in PwChars}
PasswordOptions == {{}, {<<>>}} \cup {{p} : p \in Passwords}
\* Passwords are interchangeable: archives are written with the first one.
ExportPasswordOptions == {{}, {<<>>}, {<<1>>}}
\* password.filter(|value| !value.is_empty())
NonEmptyPassword(pwopt) == pwopt # {} /\ pwopt # {<<>>}
PasswordOf(pwopt) == CHOOSE p \in pwopt : TRUE

\* OsRng.fill_bytes: the model draws the filled buffer from RandomFills.
RandomFill(n, r) == [i \in 1..n |-> r]
RandomSeeds == {5}

\* Argon2id is modelled as an injective function of (password, salt).
derive_encryption_key(password, salt) == password \o salt

\* XChaCha20-Poly1305: the body is the plaintext shifted by key and nonce,
\* the tag binds key, nonce and plaintext; decryption fails unless the tag
\* recomputed from the supplied key and nonce agrees.
CipherShift(key, nonce) == (ByteSum(key) + ByteSum(nonce)) % 256
AeadTag(key, nonce, plain) == key \o nonce \o <<ByteSum(plain)>>
AeadEncrypt(key, nonce, plain) ==
    [i \in 1..Len(plain) |-> (plain[i] + CipherShift(key, nonce)) % 256]
        \o AeadTag(key, nonce, plain)
AeadTagLen(key) == Len(key) + ENCRYPTION_NONCE_LEN + 1
\* Variant: a stream cipher without authentication (the tag is not compared).
AeadDecryptUnauthenticated(key, nonce, ct) ==
    IF Len(ct) < AeadTagLen(key) THEN [ok |-> FALSE, plain |-> <<>>]
    ELSE LET n == Len(ct) - AeadTagLen(key)
         IN [ok |-> TRUE,
             plain |-> [i \in 1..n |-> (ct[i] + 256 - CipherShift(key, nonce)) % 256]]
AeadDecrypt(key, nonce, ct) ==
    IF Len(ct) < AeadTagLen(key) THEN [ok |-> FALSE, plain |-> <<>>]
    ELSE LET n == Len(ct) - AeadTagLen(key)
             plain == [i \in 1..n |-> (ct[i] + 256 - CipherShift(key, nonce)) % 256]
         IN IF SubSeq(ct, n + 1, Len(ct)) = AeadTag(key, nonce, plain)
            THEN [ok |-> TRUE, plain |-> plain]
            ELSE [ok |-> FALSE, plain |-> <<>>]

ContainerErr(kind) == [ok |-> FALSE, err |-> kind, bytes |-> <<>>, encrypted |-> FALSE]
ContainerOk(bytes, enc) == [ok |-> TRUE, err |-> "", bytes |-> bytes, encrypted |-> enc]

build_snrdata_container(zip_bytes, encryption_enabled, pwopt, salt, nonce) ==
    IF ~encryption_enabled
    THEN ContainerOk(archive_magic_bytes \o <<ARCHIVE_VERSION, 0>> \o zip_bytes, FALSE)
    ELSE IF ~NonEmptyPassword(pwopt) THEN ContainerErr("password_required")
    ELSE LET key == derive_encryption_key(PasswordOf(pwopt), salt)
         IN ContainerOk(archive_magic_bytes \o <<ARCHIVE_VERSION, CONTAINER_FLAG_ENCRYPTED>>
                          \o salt \o nonce \o AeadEncrypt(key, nonce, zip_bytes), TRUE)

\* Variant: only the configured magic is recognised.
ActiveMagicConfiguredOnly(archive_bytes) ==
    IF StartsWith(archive_bytes, archive_magic_bytes) THEN archive_magic_bytes ELSE <<>>
ActiveMagic(archive_bytes) ==
    IF StartsWith(archive_bytes, archive_magic_bytes) THEN archive_magic_bytes
    ELSE IF StartsWith(archive_bytes, LEGACY_ARCHIVE_MAGIC) THEN LEGACY_ARCHIVE_MAGIC
    ELSE <<>>

\* Variant: a failed decryption says whether the password was the wrong one.
extract_zip_bytes_telling_cause(archive_bytes, pwopt) ==
    LET magic == ActiveMagic(archive_bytes)
        hdr == Len(magic) + 2
    IN IF magic = <<>> THEN ContainerOk(archive_bytes, FALSE)
       ELSE IF Len(archive_bytes) < hdr THEN ContainerErr("invalid_header")
       ELSE IF archive_bytes[Len(magic) + 1] # ARCHIVE_VERSION
            THEN ContainerErr("unsupported_version")
       ELSE IF archive_bytes[hdr] \div 2 # 0 THEN ContainerErr("unsupported_flags")
       ELSE LET payload == SubSeq(archive_bytes, hdr + 1, Len(archive_bytes))
                encrypted == (archive_bytes[hdr] % 2) = CONTAINER_FLAG_ENCRYPTED
            IN IF ~encrypted THEN ContainerOk(payload, FALSE)
               ELSE IF Len(payload) < ENCRYPTION_SALT_LEN + ENCRYPTION_NONCE_LEN + 1
                    THEN ContainerErr("payload_too_short")
               ELSE IF ~NonEmptyPassword(pwopt) THEN ContainerErr("password_required")
               ELSE LET salt == SubSeq(payload, 1, ENCRYPTION_SALT_LEN)
                        nonce == SubSeq(payload, ENCRYPTION_SALT_LEN + 1,
                                        ENCRYPTION_SALT_LEN + ENCRYPTION_NONCE_LEN)
                        ct == SubSeq(payload, ENCRYPTION_SALT_LEN + ENCRYPTION_NONCE_LEN + 1,
                                     Len(payload))
                        dec == AeadDecrypt(derive_encryption_key(PasswordOf(pwopt), salt),
                                           nonce, ct)
                    IN IF dec.ok THEN ContainerOk(dec.plain, TRUE)
                       ELSE IF Len(ct) > Len(PasswordOf(pwopt)) + ENCRYPTION_SALT_LEN
                                             + ENCRYPTION_NONCE_LEN
                               /\ ~StartsWith(SubSeq(ct, Len(ct) - Len(PasswordOf(pwopt))
                                                             - ENCRYPTION_SALT_LEN
                                                             - ENCRYPTION_NONCE_LEN,
                                                         Len(ct)),
                                                  PasswordOf(pwopt))
                            THEN ContainerErr("wrong_password")
                       ELSE ContainerErr("decrypt_failed")
extract_zip_bytes_from_archive_bytes(archive_bytes, pwopt) ==
    LET magic == ActiveMagic(archive_bytes)
        hdr == Len(magic) + 2
    IN IF magic = <<>> THEN ContainerOk(archive_bytes, FALSE)
       ELSE IF Len(archive_bytes) < hdr THEN ContainerErr("invalid_header")
       ELSE IF archive_bytes[Len(magic) + 1] # ARCHIVE_VERSION
            THEN ContainerErr("unsupported_version")
       ELSE IF archive_bytes[hdr] \div 2 # 0 THEN ContainerErr("unsupported_flags")
       ELSE LET payload == SubSeq(archive_bytes, hdr + 1, Len(archive_bytes))
                encrypted == (archive_bytes[hdr] % 2) = CONTAINER_FLAG_ENCRYPTED
            IN IF ~encrypted THEN ContainerOk(payload, FALSE)
               ELSE IF Len(payload) < ENCRYPTION_SALT_LEN + ENCRYPTION_NONCE_LEN + 1
                    THEN ContainerErr("payload_too_short")
               ELSE IF ~NonEmptyPassword(pwopt) THEN ContainerErr("password_required")
               ELSE LET salt == SubSeq(payload, 1, ENCRYPTION_SALT_LEN)
                        nonce == SubSeq(payload, ENCRYPTION_SALT_LEN + 1,
                                        ENCRYPTION_SALT_LEN + ENCRYPTION_NONCE_LEN)
                        ct == SubSeq(payload, ENCRYPTION_SALT_LEN + ENCRYPTION_NONCE_LEN + 1,
                                     Len(payload))
                        dec == AeadDecrypt(derive_encryption_key(PasswordOf(pwopt), salt),
                                           nonce, ct)
                    IN IF dec.ok THEN ContainerOk(dec.plain, TRUE)
                       ELSE ContainerErr("decrypt_failed")

(* ------------------------------------------------------- migration state *)
VARIABLES
    profileFs,      \* files under the profile root: rel path -> data
    locallowFs,     \* files under <LocalLow>/<root>: rel path -> data
    llDir,          \* <LocalLow>/<root> exists as a directory
    outsideFs,      \* files outside <LocalLow>/<root>: path relative to <LocalLow> -> data
    archive,        \* bytes of the archive file; <<>> when there is none
    bkExists,       \* the per-import backup directory (backup_root) exists
    bkProfile,      \* backup_root/profile_backup: rel path -> data
    bkLL,           \* backup_root/locallow_backup/<root>: rel path -> data
    bkLLDir,        \* backup_root/locallow_backup/<root> exists
    mpc,            \* position of the migration operation
    planned,        \* planned_files of the running import
    todo,           \* existing_files still to back up (backup_and_clean_profile)
    ai,             \* index of the next planned file (apply_import_files)
    counts,         \* imported_profile_files, imported_locallow_files, encrypted
    import_error,   \* error of the population closure, "" when none
    rollback_failed,\* rollback_after_failed_import returned Err
    mres,           \* result returned by the last operation
    faults,         \* filesystem failures the environment may still inject
    pre,            \* history: targets and password when import_migration_data was called
    exported        \* history: what export_migration_data packed, and how

migVars == <<profileFs, locallowFs, llDir, outsideFs, archive, bkExists, bkProfile, bkLL, bkLLDir,
             mpc, planned, todo, ai, counts, import_error, rollback_failed, mres,
             faults, pre, exported>>

\* State of the staged profile changes (install, SaveData import, uninstall).
VARIABLES
    tree,           \* the filesystem: path -> node
    settings,       \* the persisted LauncherSettings (selected_release_tag)
    tp,             \* per running command: position, arguments, locals, result
    txFaults,       \* filesystem and network failures still to inject
    hist            \* history per command: the tree at its start and at commit

txVars == <<tree, settings, tp, txFaults, hist>>

\* One call of a function that touches no file: its arguments and its result.
VARIABLES
    call,           \* the function called and its arguments
    ret             \* its result; NoRet until it has returned

calcVars == <<call, ret>>
NoCall == [fn |-> "none"]
NoRet == [done |-> FALSE]
Returned(value) == [done |-> TRUE, value |-> value]
CalcIdle == call = NoCall /\ ret = NoRet

\* State of a preset import into the profile's SaveData directory.
VARIABLES
    saveData,       \* the profile's SaveData directory: file name -> entry
    imp             \* the running import: position, arguments, locals, result

presetVars == <<saveData, imp>>
NoImport == [pc |-> "none"]
PresetIdle == saveData = EmptyFs /\ imp = NoImport

\* State of one extract_zip call and of the progress callback it was given.
VARIABLES
    extract         \* position, total, loop index, last_reported, clock, reports made

zipVars == <<extract>>
NoExtract == [pc |-> "none"]
ZipIdle == extract = NoExtract

\* State of the game process tracking (launch_service).
VARIABLES
    GAME_PROCESS,   \* the tracked child: 0 for None, else the child's PID
    gameLock,       \* holder of the GAME_PROCESS mutex: <<>> when free
    os,             \* PIDs of the game processes the operating system is running
    pidFile,        \* content of the running-game PID file: 0 when there is none
    lastEvent,      \* payload of the last game-state-changed event
    launches,       \* per launch_process call: position and result
    monitors,       \* per monitor thread: position
    query,          \* the is_game_running call: position, PID read, result
    gameFaults      \* failures of try_wait, spawn and the PID file still to inject

gameVars == <<GAME_PROCESS, gameLock, os, pidFile, lastEvent, launches, monitors, query,
              gameFaults>>
NoQuery == [pc |-> "none"]
GameIdle ==
    /\ GAME_PROCESS = 0 /\ gameLock = <<>> /\ os = {} /\ pidFile = 0
    /\ lastEvent = "none" /\ launches = <<>> /\ monitors = <<>>
    /\ query = NoQuery /\ gameFaults = 0

\* What the migration commands, and the staged profile changes, leave alone.
notMig == <<txVars, calcVars, presetVars, zipVars, gameVars>>
notTx == <<migVars, calcVars, presetVars, zipVars, gameVars>>
notCalc == <<migVars, txVars, presetVars, zipVars, gameVars>>
notPreset == <<migVars, txVars, calcVars, zipVars, gameVars>>
notZip == <<migVars, txVars, calcVars, presetVars, gameVars>>
notGame == <<migVars, txVars, calcVars, presetVars, zipVars>>

NoResult == [status |-> "none", kind |-> "", manual |-> FALSE,
             profile_files |-> 0, locallow_files |-> 0, encrypted |-> FALSE]
ErrResult(kind, manual) == [NoResult EXCEPT !.status = "err", !.kind = kind, !.manual = manual]
OkResult(np, nl, enc) == [NoResult EXCEPT !.status = "ok", !.profile_files = np,
                                          !.locallow_files = nl, !.encrypted = enc]
NoCounts == [profile_files |-> 0, locallow_files |-> 0, encrypted |-> FALSE]
NoExport == [done |-> FALSE, out_dir |-> FALSE, profile |-> EmptyFs, locallow |-> EmptyFs,
             encrypted |-> FALSE, pwopt |-> {}]
\* What the entries of an archive are, whatever the planner does with them.
HasUnsafeEntry(es) == \E i \in 1..Len(es) : ~enclosed_name(es[i].name)
NothingToPlan(es) ==
    \A i \in 1..Len(es) : es[i].dir \/ ~resolve_entry_target(es[i].name).ok
\* The password is recorded when the container is encrypted (it is not read
\* otherwise).
PasswordIsRead(container) ==
    container.encrypted \/ container.err \in {"password_required", "decrypt_failed"}
\* History of a call of import_migration_data: the targets, the password and
\* what the archive held (readable: container and zip parsed).
Snapshot(pwopt) ==
    LET container == extract_zip_bytes_from_archive_bytes(archive, pwopt)
        zip == ZipArchiveNew(container.bytes)
    IN [called |-> TRUE, profile |-> profileFs, locallow |-> locallowFs, lldir |-> llDir,
        pwopt |-> IF PasswordIsRead(container) THEN pwopt ELSE {},
        readable |-> container.ok /\ zip.ok,
        unsafe |-> container.ok /\ zip.ok /\ HasUnsafeEntry(zip.entries),
        nothing |-> container.ok /\ zip.ok /\ NothingToPlan(zip.entries),
        first_ok |-> /\ container.ok /\ zip.ok /\ zip.entries # <<>>
                     /\ enclosed_name(zip.entries[1].name)
                     /\ resolve_entry_target(zip.entries[1].name).ok]
NoTargets == [called |-> FALSE, profile |-> EmptyFs, locallow |-> EmptyFs,
              lldir |-> FALSE, pwopt |-> {}, readable |-> FALSE, unsafe |-> FALSE,
              nothing |-> FALSE, first_ok |-> FALSE]

\* collect_profile_files: the managed files present under the profile root
ManagedIn(fs) == (DOMAIN fs) \cap ManagedRels
collect_profile_files(fs) == Restrict(fs, ManagedIn(fs))
\* collect_locallow_files: every file under <LocalLow>/<root>
collect_locallow_files(fs) ==
    Restrict(fs, {r \in DOMAIN fs : is_locallow_entry_allowed(r)})

\* build_zip_bytes: profile entries first, then LocalLow entries
build_zip_bytes(profile_files, locallow_files) ==
    LET ps == SortedByIndex({<<PROFILE_ARCHIVE_PREFIX>> \o r : r \in DOMAIN profile_files})
        ls == SortedByIndex({<<LOCALLOW_ARCHIVE_PREFIX>> \o r : r \in DOMAIN locallow_files})
    IN ZipWriterFinish(
         [i \in 1..Len(ps) |-> ZipEntry(ps[i], FALSE, profile_files[Tail(ps[i])])]
         \o [i \in 1..Len(ls) |-> ZipEntry(ls[i], FALSE, locallow_files[Tail(ls[i])])])

(* ---------------------------------------------------- hand-made archives *)
PlainContainer(es) == archive_magic_bytes \o <<ARCHIVE_VERSION, 0>> \o ZipWriterFinish(es)
FileA == ZipEntry(<<"profile", "a">>, FALSE, <<1>>)
FileX == ZipEntry(<<"locallow", "SNR", "x">>, FALSE, <<1>>)
CraftedArchives == {
    \* a raw zip without container header (legacy file)
    ZipWriterFinish(<<FileA>>),
    \* entries outside the allowlist between valid ones
    PlainContainer(<<FileA, ZipEntry(<<"profile", "u">>, FALSE, <<2>>),
                     ZipEntry(<<"misc", "z">>, FALSE, <<1>>),
                     ZipEntry(<<"locallow", "Other", "y">>, FALSE, <<1>>),
                     ZipEntry(<<"profile", "dir">>, TRUE, <<>>), FileX>>),
    \* an unsafe entry after valid ones, and an absolute one
    PlainContainer(<<FileA, FileX, ZipEntry(<<"..", "..", "evil.dll">>, FALSE, <<1>>)>>),
    PlainContainer(<<ZipEntry(<<"/", "abs">>, FALSE, <<1>>), FileA>>),
    \* a LocalLow entry that starts under the root and climbs out of it
    PlainContainer(<<FileA, ZipEntry(<<"locallow", "SNR", "..", "..", "evil.dll">>,
                                     FALSE, <<2>>)>>),
    \* nothing the allowlist accepts
    PlainContainer(<<ZipEntry(<<"profile", "u">>, FALSE, <<1>>),
                     ZipEntry(<<"misc", "z">>, FALSE, <<1>>)>>),
    \* legacy magic, unsupported version, not a zip
    LEGACY_ARCHIVE_MAGIC \o <<ARCHIVE_VERSION, 0>> \o ZipWriterFinish(<<FileX>>),
    archive_magic_bytes \o <<2, 0>> \o ZipWriterFinish(<<FileA>>),
    archive_magic_bytes \o <<ARCHIVE_VERSION, 0>> \o <<1, 2, 3>> }

(* ------------------------------------------------------------------ Init *)
\* The states the targets can be in: any managed files with any data, the
\* unmanaged file present or not.
ProfileStates ==
    {Merge(m, o) : m \in AllFs(ManagedRels, FileData), o \in AllFs(UnmanagedRels, {<<1>>})}

MigIdle ==
    /\ profileFs = EmptyFs /\ locallowFs = EmptyFs /\ llDir = FALSE
    /\ outsideFs = EmptyFs
    /\ archive = <<>>
    /\ bkExists = FALSE /\ bkProfile = EmptyFs /\ bkLL = EmptyFs /\ bkLLDir = FALSE
    /\ mpc = "off" /\ planned = <<>> /\ todo = {} /\ ai = 1 /\ counts = NoCounts
    /\ import_error = "" /\ rollback_failed = FALSE /\ mres = NoResult
    /\ faults = 0
    /\ pre = NoTargets /\ exported = NoExport

MigInit ==
    /\ profileFs \in ProfileStates
    /\ locallowFs \in AllFs(LocalLowRels, FileData)
    /\ llDir \in {TRUE} \cup {b \in {FALSE} : locallowFs = EmptyFs}
    /\ outsideFs = EmptyFs
    /\ archive \in {<<>>} \cup CraftedArchives
    /\ bkExists = FALSE /\ bkProfile = EmptyFs /\ bkLL = EmptyFs /\ bkLLDir = FALSE
    /\ mpc = "idle" /\ planned = <<>> /\ todo = {} /\ ai = 1 /\ counts = NoCounts
    /\ import_error = "" /\ rollback_failed = FALSE /\ mres = NoResult
    /\ faults = MaxFaults
    /\ pre = NoTargets /\ exported = NoExport

\* One fallible call fails.
InjectFault ==
    /\ faults > 0
    /\ faults' = faults - 1

importVars == <<bkExists, bkProfile, bkLL, bkLLDir, planned, todo, ai, counts,
                import_error, rollback_failed, pre>>
targetVars == <<profileFs, locallowFs, llDir>>

(* ------------------------------------------------- export_migration_data *)
\* Variant: an export that does not look whether anything was collected.
export_without_empty_check(encryption_enabled, pwopt, r) ==
    /\ mpc = "idle" /\ archive = <<>>
    /\ LET profile_files == collect_profile_files(profileFs)
           locallow_files == IF llDir THEN collect_locallow_files(locallowFs) ELSE EmptyFs
           zip_bytes == build_zip_bytes(profile_files, locallow_files)
           built == build_snrdata_container(zip_bytes, encryption_enabled, pwopt,
                        RandomFill(ENCRYPTION_SALT_LEN, r), RandomFill(ENCRYPTION_NONCE_LEN, r))
       IN IF ~built.ok
          THEN /\ mres' = ErrResult(built.err, FALSE)
               /\ mpc' = "returned"
               /\ UNCHANGED <<archive, exported>>
          ELSE /\ archive' = built.bytes
               /\ mres' = OkResult(Cardinality(DOMAIN profile_files),
                                   Cardinality(DOMAIN locallow_files), built.encrypted)
               /\ exported' = [done |-> TRUE, out_dir |-> TRUE, profile |-> profile_files,
                               locallow |-> locallow_files,
                               encrypted |-> built.encrypted, pwopt |-> pwopt]
               /\ mpc' = "exported"
    /\ UNCHANGED <<targetVars, importVars, faults>>
    /\ UNCHANGED <<notMig, outsideFs>>
\* The whole of export_migration_data; the drawn salt and nonce are inputs.
\* exported.out_dir: create_dir_all(parent of the archive path) has run.
export_migration_data(encryption_enabled, pwopt, r) ==
    /\ mpc = "idle" /\ archive = <<>>
    /\ LET profile_files == collect_profile_files(profileFs)
           locallow_files == IF llDir THEN collect_locallow_files(locallowFs) ELSE EmptyFs
           zip_bytes == build_zip_bytes(profile_files, locallow_files)
           built == build_snrdata_container(zip_bytes, encryption_enabled, pwopt,
                        RandomFill(ENCRYPTION_SALT_LEN, r), RandomFill(ENCRYPTION_NONCE_LEN, r))
       IN IF profile_files = EmptyFs /\ locallow_files = EmptyFs
          THEN /\ mres' = ErrResult("nothing_to_export", FALSE)
               /\ mpc' = "returned"
               /\ UNCHANGED <<archive, exported>>
          ELSE IF ~built.ok
          THEN /\ mres' = ErrResult(built.err, FALSE)
               /\ mpc' = "returned"
               /\ UNCHANGED <<archive, exported>>
          ELSE /\ archive' = built.bytes
               /\ mres' = OkResult(Cardinality(DOMAIN profile_files),
                                   Cardinality(DOMAIN locallow_files), built.encrypted)
               /\ exported' = [done |-> TRUE, out_dir |-> TRUE, profile |-> profile_files,
                               locallow |-> locallow_files,
                               encrypted |-> built.encrypted, pwopt |-> pwopt]
               /\ mpc' = "exported"
    /\ UNCHANGED <<targetVars, importVars, faults>>
    /\ UNCHANGED <<notMig, outsideFs>>

\* A filesystem call of the export fails: no archive.  Reading the settings,
\* the profile or LocalLow fails before anything is known to be there;
\* create_dir_all and fs::write are reached only with something to export,
\* and when fs::write fails the output directory has been created.
export_io_failure(dir_created) ==
    /\ mpc = "idle" /\ archive = <<>>
    /\ dir_created => (ManagedIn(profileFs) # {} \/ (llDir /\ locallowFs # EmptyFs))
    /\ InjectFault
    /\ mres' = ErrResult("io", FALSE)
    /\ mpc' = "returned"
    /\ exported' = [exported EXCEPT !.out_dir = dir_created]
    /\ UNCHANGED <<archive, targetVars, importVars>>
    /\ UNCHANGED <<notMig, outsideFs>>

\* Environment: the archive is carried to targets that hold other files; the
\* import of a freshly exported archive is explored without injected faults.
EnvReplaceTargets ==
    /\ mpc = "exported"
    /\ profileFs' \in ProfileStates
    /\ locallowFs' \in AllFs(LocalLowRels, FileData)
    /\ llDir' \in {TRUE} \cup {b \in {FALSE} : locallowFs' = EmptyFs}
    /\ mpc' = "idle"
    /\ faults' = 0
    /\ UNCHANGED <<archive, exported, mres, importVars>>
    /\ UNCHANGED <<notMig, outsideFs>>

(* ------------------------------------------------- import_migration_data *)
\* plan_import_files over the entries from index `index` on: Err ([ok |-> FALSE])
\* at the first entry enclosed_name refuses, directories and entries without a
\* target skipped.
\* Variant: a planner that skips an entry enclosed_name refuses.
RECURSIVE PlanSkippingUnsafe(_, _)
PlanSkippingUnsafe(entries, index) ==
    IF index > Len(entries) THEN [ok |-> TRUE, files |-> <<>>]
    ELSE LET entry == entries[index]
             target == resolve_entry_target(entry.name)
             rest == PlanSkippingUnsafe(entries, index + 1)
         IN IF ~enclosed_name(entry.name) \/ entry.dir \/ ~target.ok THEN rest
            ELSE [ok |-> TRUE,
                  files |-> <<[archive_index |-> index, rel |-> target.rel,
                               is_profile_target |-> target.is_profile_target,
                               data |-> entry.data]>> \o rest.files]
RECURSIVE PlanFrom(_, _)
PlanFrom(entries, index) ==
    IF index > Len(entries) THEN [ok |-> TRUE, files |-> <<>>]
    ELSE LET entry == entries[index]
             target == resolve_entry_target(entry.name)
             rest == PlanFrom(entries, index + 1)
         IN IF ~enclosed_name(entry.name) THEN [ok |-> FALSE, files |-> <<>>]
            ELSE IF ~rest.ok THEN rest
            ELSE IF entry.dir \/ ~target.ok THEN rest
            ELSE [ok |-> TRUE,
                  files |-> <<[archive_index |-> index, rel |-> target.rel,
                               is_profile_target |-> target.is_profile_target,
                               data |-> entry.data]>> \o rest.files]

plan_import_files(entries) == PlanFrom(entries, 1)

ImportReturnsEarly(kind) ==
    /\ mres' = ErrResult(kind, FALSE)
    /\ mpc' = "returned"
    /\ UNCHANGED <<bkExists, planned, todo, counts>>

\* import_migration_data up to and including create_backup_root: nothing of
\* the targets is read or written before the plan exists.
import_begin(pwopt) ==
    /\ mpc = "idle"
    /\ pre' = Snapshot(pwopt)
    /\ LET container == extract_zip_bytes_from_archive_bytes(archive, pwopt)
           zip == ZipArchiveNew(container.bytes)
           plan == plan_import_files(zip.entries)
       IN IF archive = <<>> THEN ImportReturnsEarly("not_found") /\ UNCHANGED faults
          ELSE IF ~container.ok THEN ImportReturnsEarly(container.err) /\ UNCHANGED faults
          ELSE IF ~zip.ok THEN ImportReturnsEarly("invalid_zip") /\ UNCHANGED faults
          ELSE IF ~plan.ok THEN ImportReturnsEarly("unsafe_entry") /\ UNCHANGED faults
          ELSE IF plan.files = <<>> THEN ImportReturnsEarly("no_entries") /\ UNCHANGED faults
          ELSE \/ /\ bkExists' = TRUE
                  /\ UNCHANGED faults
                  /\ planned' = plan.files
                  /\ todo' = ManagedIn(profileFs)
                  /\ counts' = [NoCounts EXCEPT !.encrypted = container.encrypted]
                  /\ mpc' = "bk_profile"
                  /\ mres' = NoResult
               \/ ImportReturnsEarly("io") /\ InjectFault   \* create_backup_root fails
    /\ UNCHANGED <<targetVars, archive, exported, bkProfile, bkLL, bkLLDir, ai,
                   import_error, rollback_failed>>
    /\ UNCHANGED <<notMig, outsideFs>>

\* The population closure failed: go to rollback_after_failed_import.
PopulationFails ==
    /\ InjectFault
    /\ import_error' = "io"
    /\ mpc' = "rb_clean"

\* backup_and_clean_profile, one existing file: copy to the backup, remove.
backup_and_clean_profile(f) ==
    /\ mpc = "bk_profile" /\ f \in todo
    /\ bkProfile' = Merge(bkProfile, f :> profileFs[f])
    /\ profileFs' = Restrict(profileFs, (DOMAIN profileFs) \ {f})
    /\ todo' = todo \ {f}
    /\ UNCHANGED <<locallowFs, llDir, archive, bkExists, bkLL, bkLLDir, mpc, planned,
                   ai, counts, import_error, rollback_failed, mres, faults, pre, exported>>
    /\ UNCHANGED <<notMig, outsideFs>>

backup_profile_done ==
    /\ mpc = "bk_profile" /\ todo = {}
    /\ mpc' = "bk_ll"
    /\ UNCHANGED <<targetVars, archive, bkExists, bkProfile, bkLL, bkLLDir, planned, todo,
                   ai, counts, import_error, rollback_failed, mres, faults, pre, exported>>
    /\ UNCHANGED <<notMig, outsideFs>>

\* collect_profile_files, create_dir_all or fs::copy fails: nothing changed.
backup_profile_copy_fails ==
    /\ mpc = "bk_profile"
    /\ (todo # {} \/ (todo = ManagedIn(profileFs) /\ profileFs # EmptyFs))
    /\ PopulationFails
    /\ UNCHANGED <<targetVars, archive, bkExists, bkProfile, bkLL, bkLLDir, planned, todo,
                   ai, counts, rollback_failed, mres, pre, exported>>
    /\ UNCHANGED <<notMig, outsideFs>>

\* fs::copy succeeded and fs::remove_file fails: the file is in both places.
backup_profile_remove_fails(f) ==
    /\ mpc = "bk_profile" /\ f \in todo
    /\ bkProfile' = Merge(bkProfile, f :> profileFs[f])
    /\ PopulationFails
    /\ UNCHANGED <<targetVars, archive, bkExists, bkLL, bkLLDir, planned, todo,
                   ai, counts, rollback_failed, mres, pre, exported>>
    /\ UNCHANGED <<notMig, outsideFs>>

\* Variant: the LocalLow directory is backed up and not cleared.
backup_locallow_without_clean ==
    /\ mpc = "bk_ll"
    /\ IF ~llDir
       THEN UNCHANGED <<bkLL, bkLLDir>>
       ELSE bkLL' = locallowFs /\ bkLLDir' = TRUE
    /\ mpc' = "apply"
    /\ UNCHANGED <<targetVars, archive, bkExists, bkProfile, planned, todo,
                   ai, counts, import_error, rollback_failed, mres, faults, pre, exported>>
    /\ UNCHANGED <<notMig, outsideFs>>
\* backup_and_clean_locallow: skipped when the directory does not exist.
backup_and_clean_locallow ==
    /\ mpc = "bk_ll"
    /\ IF ~llDir
       THEN UNCHANGED <<locallowFs, llDir, bkLL, bkLLDir>>
       ELSE /\ bkLL' = locallowFs /\ bkLLDir' = TRUE
            /\ locallowFs' = EmptyFs /\ llDir' = FALSE
    /\ mpc' = "apply"
    /\ UNCHANGED <<profileFs, archive, bkExists, bkProfile, planned, todo,
                   ai, counts, import_error, rollback_failed, mres, faults, pre, exported>>
    /\ UNCHANGED <<notMig, outsideFs>>

\* copy_directory_recursive into the backup fails: before the directory was
\* created, or after the files S (not all of them) were copied.
backup_locallow_copy_fails(created, S) ==
    /\ mpc = "bk_ll" /\ llDir
    /\ S \subseteq DOMAIN locallowFs
    /\ ~created => S = {}
    /\ S = DOMAIN locallowFs => S = {}
    /\ bkLLDir' = created
    /\ bkLL' = Restrict(locallowFs, S)
    /\ PopulationFails
    /\ UNCHANGED <<targetVars, archive, bkExists, bkProfile, planned, todo,
                   ai, counts, rollback_failed, mres, pre, exported>>
    /\ UNCHANGED <<notMig, outsideFs>>

\* fs::remove_dir_all fails after removing the files R.
backup_locallow_remove_fails(R) ==
    /\ mpc = "bk_ll" /\ llDir
    /\ R \subseteq DOMAIN locallowFs
    /\ bkLL' = locallowFs /\ bkLLDir' = TRUE
    /\ locallowFs' = Restrict(locallowFs, (DOMAIN locallowFs) \ R)
    /\ PopulationFails
    /\ UNCHANGED <<profileFs, llDir, archive, bkExists, bkProfile, planned, todo,
                   ai, counts, rollback_failed, mres, pre, exported>>
    /\ UNCHANGED <<notMig, outsideFs>>

\* apply_import_files, one planned file: create_dir_all, File::create, io::copy.
\* The operating system resolves the ".." of the target path: a LocalLow
\* target that leaves <LocalLow>/<root> lands in outsideFs.
WriteTarget(p, data) ==
    IF p.is_profile_target
    THEN /\ profileFs' = Merge(profileFs, p.rel :> data)
         /\ UNCHANGED <<locallowFs, llDir, outsideFs>>
    ELSE /\ IF is_locallow_entry_allowed(Normalize(p.rel))
            THEN /\ locallowFs' = Merge(locallowFs, Normalize(p.rel) :> data)
                 /\ UNCHANGED outsideFs
            ELSE /\ outsideFs' = Merge(outsideFs, Normalize(p.rel) :> data)
                 /\ UNCHANGED locallowFs
         /\ llDir' = TRUE
         /\ UNCHANGED profileFs

apply_import_files ==
    /\ mpc = "apply" /\ ai <= Len(planned)
    /\ WriteTarget(planned[ai], planned[ai].data)
    /\ ai' = ai + 1
    /\ counts' = IF planned[ai].is_profile_target
                 THEN [counts EXCEPT !.profile_files = @ + 1]
                 ELSE [counts EXCEPT !.locallow_files = @ + 1]
    /\ UNCHANGED <<archive, bkExists, bkProfile, bkLL, bkLLDir, mpc, planned, todo,
                   import_error, rollback_failed, mres, faults, pre, exported>>
    /\ UNCHANGED notMig

apply_done ==
    /\ mpc = "apply" /\ ai > Len(planned)
    /\ mpc' = "finish"
    /\ UNCHANGED <<targetVars, archive, bkExists, bkProfile, bkLL, bkLLDir, planned, todo,
                   ai, counts, import_error, rollback_failed, mres, faults, pre, exported>>
    /\ UNCHANGED <<notMig, outsideFs>>

\* by_index, create_dir_all or File::create fails: no file; the parent
\* directory exists when create_dir_all had succeeded.
apply_create_fails(dir_created) ==
    /\ mpc = "apply" /\ ai <= Len(planned)
    /\ llDir' = IF dir_created /\ ~planned[ai].is_profile_target THEN TRUE ELSE llDir
    /\ PopulationFails
    /\ UNCHANGED <<profileFs, locallowFs, archive, bkExists, bkProfile, bkLL, bkLLDir,
                   planned, todo, ai, counts, rollback_failed, mres, pre, exported>>
    /\ UNCHANGED <<notMig, outsideFs>>

\* io::copy fails: the created file is left truncated.
apply_copy_fails ==
    /\ mpc = "apply" /\ ai <= Len(planned)
    /\ WriteTarget(planned[ai], TruncatedData)
    /\ PopulationFails
    /\ UNCHANGED <<archive, bkExists, bkProfile, bkLL, bkLLDir,
                   planned, todo, ai, counts, rollback_failed, mres, pre, exported>>
    /\ UNCHANGED notMig

(* ------------------------------------------ rollback_after_failed_import *)
RollbackFails ==
    /\ InjectFault
    /\ rollback_failed' = TRUE
    /\ mpc' = "finish"

\* clean_managed_profile_files
clean_managed_profile_files ==
    /\ mpc = "rb_clean"
    /\ profileFs' = Restrict(profileFs, (DOMAIN profileFs) \ ManagedRels)
    /\ mpc' = "rb_profile"
    /\ UNCHANGED <<locallowFs, llDir, archive, bkExists, bkProfile, bkLL, bkLLDir, planned,
                   todo, ai, counts, import_error, rollback_failed, mres, faults, pre, exported>>
    /\ UNCHANGED <<notMig, outsideFs>>

\* ... fails after removing the files R (collect fails: R = {}).
clean_managed_fails(R) ==
    /\ mpc = "rb_clean" /\ profileFs # EmptyFs
    /\ R \subseteq ManagedIn(profileFs)
    /\ R = ManagedIn(profileFs) => R = {}
    /\ profileFs' = Restrict(profileFs, (DOMAIN profileFs) \ R)
    /\ RollbackFails
    /\ UNCHANGED <<locallowFs, llDir, archive, bkExists, bkProfile, bkLL, bkLLDir, planned,
                   todo, ai, counts, import_error, mres, pre, exported>>
    /\ UNCHANGED <<notMig, outsideFs>>

\* restore_profile_from_backup: copy_directory_recursive(backup, profile_root)
restore_profile_from_backup ==
    /\ mpc = "rb_profile"
    /\ profileFs' = Merge(profileFs, bkProfile)
    /\ mpc' = "rb_ll"
    /\ UNCHANGED <<locallowFs, llDir, archive, bkExists, bkProfile, bkLL, bkLLDir, planned,
                   todo, ai, counts, import_error, rollback_failed, mres, faults, pre, exported>>
    /\ UNCHANGED <<notMig, outsideFs>>

\* ... fails after copying the files S (not all of them).
restore_profile_fails(S) ==
    /\ mpc = "rb_profile"
    /\ S \subseteq DOMAIN bkProfile /\ S # DOMAIN bkProfile
    /\ profileFs' = Merge(profileFs, Restrict(bkProfile, S))
    /\ RollbackFails
    /\ UNCHANGED <<locallowFs, llDir, archive, bkExists, bkProfile, bkLL, bkLLDir, planned,
                   todo, ai, counts, import_error, mres, pre, exported>>
    /\ UNCHANGED <<notMig, outsideFs>>

\* restore_locallow_from_backup: remove the directory if it exists, then
\* copy_directory_recursive(backup, dir), which is Ok(()) without a backup.
restore_locallow_from_backup ==
    /\ mpc = "rb_ll"
    /\ locallowFs' = IF bkLLDir THEN bkLL ELSE EmptyFs
    /\ llDir' = bkLLDir
    /\ mpc' = "finish"
    /\ UNCHANGED <<profileFs, archive, bkExists, bkProfile, bkLL, bkLLDir, planned,
                   todo, ai, counts, import_error, rollback_failed, mres, faults, pre, exported>>
    /\ UNCHANGED <<notMig, outsideFs>>

\* ... fs::remove_dir_all fails after removing the files R.
restore_locallow_remove_fails(R) ==
    /\ mpc = "rb_ll" /\ llDir
    /\ R \subseteq DOMAIN locallowFs
    /\ locallowFs' = Restrict(locallowFs, (DOMAIN locallowFs) \ R)
    /\ RollbackFails
    /\ UNCHANGED <<profileFs, llDir, archive, bkExists, bkProfile, bkLL, bkLLDir, planned,
                   todo, ai, counts, import_error, mres, pre, exported>>
    /\ UNCHANGED <<notMig, outsideFs>>

\* ... the copy back fails: before the directory was created, or after the
\* files S (not all of them) were copied.
restore_locallow_copy_fails(created, S) ==
    /\ mpc = "rb_ll" /\ bkLLDir
    /\ S \subseteq DOMAIN bkLL
    /\ ~created => S = {}
    /\ S = DOMAIN bkLL => S = {}
    /\ locallowFs' = Restrict(bkLL, S)
    /\ llDir' = created
    /\ RollbackFails
    /\ UNCHANGED <<profileFs, archive, bkExists, bkProfile, bkLL, bkLLDir, planned,
                   todo, ai, counts, import_error, mres, pre, exported>>
    /\ UNCHANGED <<notMig, outsideFs>>

\* The match on apply_result: `let _ = fs::remove_dir_all(&backup_root)` on
\* both arms, then Ok(summary), Err(import_error) or the compound error.
import_finish(backup_removed) ==
    /\ mpc = "finish"
    /\ IF backup_removed
       THEN /\ bkExists' = FALSE /\ bkProfile' = EmptyFs /\ bkLL' = EmptyFs /\ bkLLDir' = FALSE
            /\ UNCHANGED faults
       ELSE UNCHANGED <<bkExists, bkProfile, bkLL, bkLLDir>> /\ InjectFault
    /\ mres' = IF import_error = ""
               THEN OkResult(counts.profile_files, counts.locallow_files, counts.encrypted)
               ELSE ErrResult(import_error, rollback_failed)
    /\ mpc' = "returned"
    /\ UNCHANGED <<targetVars, archive, planned, todo, ai, counts, import_error,
                   rollback_failed, pre, exported>>
    /\ UNCHANGED <<notMig, outsideFs>>

MigNext ==
    \/ \E e \in BOOLEAN, pw \in ExportPasswordOptions, r \in RandomSeeds :
          export_migration_data(e, pw, r)
    \/ \E d \in BOOLEAN : export_io_failure(d)
    \/ EnvReplaceTargets
    \/ \E pw \in PasswordOptions : import_begin(pw)
    \/ \E f \in ManagedRels : backup_and_clean_profile(f)
    \/ backup_profile_done
    \/ backup_profile_copy_fails
    \/ \E f \in ManagedRels : backup_profile_remove_fails(f)
    \/ backup_and_clean_locallow
    \/ \E c \in BOOLEAN, S \in SUBSET LocalLowRels : backup_locallow_copy_fails(c, S)
    \/ \E R \in SUBSET LocalLowRels : backup_locallow_remove_fails(R)
    \/ apply_import_files
    \/ apply_done
    \/ \E c \in BOOLEAN : apply_create_fails(c)
    \/ apply_copy_fails
    \/ clean_managed_profile_files
    \/ \E R \in SUBSET ManagedRels : clean_managed_fails(R)
    \/ restore_profile_from_backup
    \/ \E S \in SUBSET ManagedRels : restore_profile_fails(S)
    \/ restore_locallow_from_backup
    \/ \E R \in SUBSET LocalLowRels : restore_locallow_remove_fails(R)
    \/ \E c \in BOOLEAN, S \in SUBSET LocalLowRels : restore_locallow_copy_fails(c, S)
    \/ \E b \in BOOLEAN : import_finish(b)

(* ================================================= staged profile changes *)
(* snr_service.rs: install_snr_release, import_savedata_from_among_us_into_
   profile and uninstall_snr_profile work on directories; the filesystem is a
   tree, a map from the absolute path of every existing node to the node.   *)
DirNode == [dir |-> TRUE, data |-> <<>>]
FileNode(data) == [dir |-> FALSE, data |-> data]

IsPrefix(p, q) == Len(p) <= Len(q) /\ SubSeq(q, 1, Len(p)) = p
\* Path::exists, Path::is_dir
PathExists(t, p) == p \in DOMAIN t
PathIsDir(t, p) == p \in DOMAIN t /\ t[p].dir
PathIsFile(t, p) == p \in DOMAIN t /\ ~t[p].dir
\* The node p and everything below it.
Under(t, p) == {q \in DOMAIN t : IsPrefix(p, q)}
FilesUnder(t, p) == {q \in Under(t, p) : ~t[q].dir}
Without(t, S) == Restrict(t, (DOMAIN t) \ S)
\* The files below p, keyed by their path relative to p.
RelPath(p, q) == SubSeq(q, Len(p) + 1, Len(q))
Content(t, p) == [r \in {RelPath(p, q) : q \in FilesUnder(t, p)} |-> t[p \o r].data]
\* fs::create_dir_all
Ancestors(p) == {SubSeq(p, 1, k) : k \in 1..Len(p)}
create_dir_all(t, p) == Merge([q \in Ancestors(p) |-> DirNode], t)
\* What the operating system makes of a path: a root component restarts at
\* the root (Path::join with an absolute path replaces the base), ".." steps
\* to the parent directory.
RECURSIVE ResolveFrom(_, _)
ResolveFrom(done, path) ==
    IF path = <<>> THEN done
    ELSE IF Head(path) = "/" THEN ResolveFrom(<<>>, Tail(path))
    ELSE IF Head(path) = ".."
    THEN ResolveFrom(IF done = <<>> THEN <<>> ELSE SubSeq(done, 1, Len(done) - 1), Tail(path))
    ELSE ResolveFrom(Append(done, Head(path)), Tail(path))
Resolve(path) == ResolveFrom(<<>>, path)
\* fs::create_dir_all on a path as written: every prefix is created.
create_dir_all_raw(t, raw) ==
    Merge([q \in {Resolve(SubSeq(raw, 1, k)) : k \in 1..Len(raw)} \ {<<>>} |-> DirNode], t)
\* File::create + write, after create_dir_all(parent)
WriteFile(t, p, data) ==
    Merge(create_dir_all(t, SubSeq(p, 1, Len(p) - 1)), p :> FileNode(data))
\* fs::remove_dir_all / fs::remove_file on an existing path
RemoveTree(t, p) == Without(t, Under(t, p))
\* fs::rename(src, dst) when it succeeds: the subtree moves, replacing an
\* empty directory at dst.
RenameTree(t, src, dst) ==
    LET moved == Under(t, src)
        rest == Without(t, moved \cup Under(t, dst))
    IN Merge(rest, [q \in {dst \o RelPath(src, m) : m \in moved}
                       |-> t[src \o RelPath(dst, q)]])
\* fs::rename can succeed: the source exists and the destination does not
\* (an empty destination directory is replaced on Unix).
RenamePossible(t, src, dst) ==
    /\ PathExists(t, src)
    /\ PathExists(t, dst) => (PathIsDir(t, dst) /\ Under(t, dst) = {dst})
\* copy of the files `files` (paths relative to src) from src into dst
CopyFiles(t, src, dst, files) ==
    Merge(t, [q \in UNION {Ancestors(dst \o r) : r \in files} |->
                 IF \E r \in files : q = dst \o r
                 THEN t[src \o (CHOOSE r \in files : q = dst \o r)]
                 ELSE IF q \in DOMAIN t THEN t[q] ELSE DirNode])

(* The paths of the model. *)
ProfilePath == <<"profile">>
\* Variant: the staging directory is the profile directory itself.
make_profile_paths_in_place(profile_path) ==
    [staging |-> profile_path,
     backup |-> SubSeq(profile_path, 1, Len(profile_path) - 1) \o <<"profile._backup">>]
\* make_profile_paths: <parent>/<base>._staging and <parent>/<base>._backup
make_profile_paths(profile_path) ==
    [staging |-> SubSeq(profile_path, 1, Len(profile_path) - 1) \o <<"profile._staging">>,
     backup |-> SubSeq(profile_path, 1, Len(profile_path) - 1) \o <<"profile._backup">>]
SOURCE_SAVE_DATA_RELATIVE_PATH == <<"SuperNewRolesNext", "SaveData">>
SAVE_DATA_STAGING_DIR_NAME == "SaveData._import_staging"
SAVE_DATA_BACKUP_DIR_NAME == "SaveData._import_backup"
PRESERVED_SAVE_DATA_DIR == "preserved_save_data"
\* profile_save_data_path, preserved_save_data_path
profile_save_data_path == ProfilePath \o SOURCE_SAVE_DATA_RELATIVE_PATH
preserved_save_data_path == <<"appdata", PRESERVED_SAVE_DATA_DIR>>
\* the Among Us folder the SaveData import reads
AmongUsPath == <<"amongus">>
source_save_data_path_from_among_us(among_us_path) ==
    among_us_path \o SOURCE_SAVE_DATA_RELATIVE_PATH
\* required_profile_files(): the configured list
required_profile_files == {<<"req.dll">>}

(* ------------------------------------------------------ transaction state *)
\* The variables tree, settings, tp, txFaults and hist (txVars).

\* The commands that can run at the same time (tauri runs each on its own thread).
Procs == {1, 2}

Tags == {"v1"}
\* The release packages a download can deliver, as the entries of the zip:
\* a complete one, one with a directory and a ".." that stays inside, one
\* without the required file, one with an entry that climbs out of the
\* destination and one with an absolute entry, each followed by a safe entry.
Packages == {
    <<ZipEntry(<<"req.dll">>, FALSE, <<1>>)>>,
    <<ZipEntry(<<"BepInEx">>, TRUE, <<>>), ZipEntry(<<"req.dll">>, FALSE, <<2>>),
      ZipEntry(<<"BepInEx", "..", "a">>, FALSE, <<1>>)>>,
    <<ZipEntry(<<"readme">>, FALSE, <<1>>)>>,
    <<ZipEntry(<<"req.dll">>, FALSE, <<1>>),
      ZipEntry(<<"..", "profile", "req.dll">>, FALSE, <<2>>),
      ZipEntry(<<"late">>, FALSE, <<1>>)>>,
    <<ZipEntry(<<"/", "profile", "req.dll">>, FALSE, <<2>>),
      ZipEntry(<<"req.dll">>, FALSE, <<1>>)>> }

IdleProc == [pc |-> "idle", op |-> "", tag |-> "", restore |-> FALSE, preserve |-> FALSE,
             package |-> <<>>, target |-> <<>>, staging |-> <<>>, backup |-> <<>>,
             todo |-> {}, perr |-> FALSE, manual |-> FALSE, result |-> "none", err |-> "", ev |-> <<>>]
OffProc == [IdleProc EXCEPT !.pc = "off"]
NoHist == [started |-> FALSE, pre |-> EmptyFs, promote_called |-> FALSE,
           commit |-> EmptyFs, promoted |-> FALSE, repair_failed |-> FALSE,
           order |-> <<>>]

\* The trees a command can find: the profile absent, empty or installed, with
\* or without a save file and SaveData; left-overs of an earlier failed run
\* at the staging and backup paths; preserved save data of an earlier
\* uninstall; the SaveData folder of an Among Us installation.
RECURSIVE TreeOf(_)
TreeOf(files) ==
    IF files = <<>> THEN EmptyFs
    ELSE WriteFile(TreeOf(Tail(files)), Head(files)[1], Head(files)[2])
ProfileTrees == {
    EmptyFs,
    create_dir_all(EmptyFs, ProfilePath),
    TreeOf(<< <<ProfilePath \o <<"req.dll">>, <<1>>>> >>),
    TreeOf(<< <<ProfilePath \o <<"req.dll">>, <<1>>>>, <<ProfilePath \o <<"a">>, <<1>>>> >>),
    TreeOf(<< <<ProfilePath \o <<"req.dll">>, <<1>>>>, <<ProfilePath \o <<"a">>, <<2>>>>,
              <<profile_save_data_path \o <<"s">>, <<1>>>> >>) }
LeftoverTrees == {
    EmptyFs,
    TreeOf(<< <<make_profile_paths(ProfilePath).staging \o <<"old">>, <<1>>>> >>),
    TreeOf(<< <<make_profile_paths(ProfilePath).backup \o <<"req.dll">>, <<2>>>> >>),
    TreeOf(<< <<ProfilePath \o <<"SuperNewRolesNext", SAVE_DATA_STAGING_DIR_NAME, "old">>,
                <<1>>>> >>),
    TreeOf(<< <<ProfilePath \o <<"SuperNewRolesNext", SAVE_DATA_BACKUP_DIR_NAME, "s">>,
                <<2>>>> >>) }
PreservedTrees == {
    EmptyFs,
    create_dir_all(EmptyFs, preserved_save_data_path),
    TreeOf(<< <<preserved_save_data_path \o <<"a">>, <<2>>>> >>) }
AmongUsTrees == {
    EmptyFs,
    TreeOf(<< <<source_save_data_path_from_among_us(AmongUsPath) \o <<"s">>, <<2>>>> >>) }
InitialTrees ==
    {Merge(Merge(a, b), Merge(c, d)) :
        a \in ProfileTrees, b \in LeftoverTrees, c \in PreservedTrees, d \in AmongUsTrees}

TxIdle ==
    /\ tree = EmptyFs /\ settings = [selected_release_tag |-> ""]
    /\ tp = [p \in Procs |-> OffProc]
    /\ txFaults = 0
    /\ hist = [p \in Procs |-> NoHist]

\* One command runs; nothing else touches the profile.
TxInit ==
    /\ tree \in InitialTrees
    /\ settings = [selected_release_tag |-> ""]
    /\ tp = [p \in Procs |-> IF p = 1 THEN IdleProc ELSE OffProc]
    /\ txFaults = MaxFaults
    /\ hist = [p \in Procs |-> NoHist]

TxInjectFault ==
    /\ txFaults > 0
    /\ txFaults' = txFaults - 1

\* clean_path: Ok(()) without the path, else remove_dir_all or remove_file.
clean_path(t, path) == IF PathExists(t, path) THEN RemoveTree(t, path) ELSE t
\* ... the removal fails after removing some of the files below path.
CleanPathFailures(t, path) ==
    IF PathExists(t, path) THEN {Without(t, R) : R \in SUBSET FilesUnder(t, path)}
    ELSE {}

(* --------------------------------------------- promote_staging_to_profile *)
\* The caller invokes promote_staging_to_profile(staging, target, backup).
EnterPromote(p, t) ==
    hist' = [hist EXCEPT ![p].promote_called = TRUE, ![p].commit = t]
\* promote_staging_to_profile returns to its caller: Ok(()) or the one
\* Err(format!("Failed to move ...")), which never mentions the repair.
PromoteReturns(p, failed) ==
    [tp[p] EXCEPT !.pc = "pr_returned", !.perr = failed, !.manual = FALSE]
\* The node at path and everything below it, keyed by the path relative to
\* it: the empty map when nothing is there.
SubtreeAt(t, path) == [r \in {RelPath(path, q) : q \in Under(t, path)} |-> t[path \o r]]

\* clean_path(backup)?
pr_clean_backup(p) ==
    /\ tp[p].pc = "pr_clean_backup"
    /\ tree' = clean_path(tree, tp[p].backup)
    /\ tp' = [tp EXCEPT ![p].pc = "pr_rename_profile"]
    /\ hist' = [hist EXCEPT ![p].order = Append(@, "clean_backup")]
    /\ UNCHANGED <<settings, txFaults>>
    /\ UNCHANGED notTx

\* (Only a concurrent command can have put something at the backup path by
\* now: the callers clean it before they populate the staging directory.)
pr_clean_backup_fails(p) ==
    /\ tp[p].pc = "pr_clean_backup"
    /\ tree' \in CleanPathFailures(tree, tp[p].backup)
    /\ TxInjectFault
    /\ tp' = [tp EXCEPT ![p] = PromoteReturns(p, TRUE)]
    /\ UNCHANGED <<settings, hist>>
    /\ UNCHANGED notTx

\* if profile.exists() { fs::rename(profile, backup)? }
pr_rename_profile(p) ==
    /\ tp[p].pc = "pr_rename_profile"
    /\ IF PathExists(tree, tp[p].target)
       THEN /\ RenamePossible(tree, tp[p].target, tp[p].backup)
            /\ tree' = RenameTree(tree, tp[p].target, tp[p].backup)
            /\ hist' = [hist EXCEPT ![p].order = Append(@, "rename_target")]
       ELSE UNCHANGED <<tree, hist>>
    /\ tp' = [tp EXCEPT ![p].pc = "pr_rename_staging"]
    /\ UNCHANGED <<settings, txFaults>>
    /\ UNCHANGED notTx

\* A rename that cannot succeed fails; one that could may fail all the same.
RenameFails(src, dst) ==
    IF RenamePossible(tree, src, dst) THEN TxInjectFault ELSE UNCHANGED txFaults

pr_rename_profile_fails(p) ==
    /\ tp[p].pc = "pr_rename_profile"
    /\ PathExists(tree, tp[p].target)
    /\ RenameFails(tp[p].target, tp[p].backup)
    /\ tp' = [tp EXCEPT ![p] = PromoteReturns(p, TRUE)]
    /\ UNCHANGED <<tree, settings, hist>>
    /\ UNCHANGED notTx

\* Variant: the staged tree is copied into place and not moved.
pr_copy_staging(p) ==
    /\ tp[p].pc = "pr_rename_staging"
    /\ RenamePossible(tree, tp[p].staging, tp[p].target)
    /\ tree' = Merge(tree, RenameTree(tree, tp[p].staging, tp[p].target))
    /\ tp' = [tp EXCEPT ![p].pc = "pr_cleanup"]
    /\ hist' = [hist EXCEPT ![p].promoted = TRUE,
                            ![p].order = Append(@, "rename_staging")]
    /\ UNCHANGED <<settings, txFaults>>
    /\ UNCHANGED notTx
\* match fs::rename(staging, profile): the Ok arm
pr_rename_staging(p) ==
    /\ tp[p].pc = "pr_rename_staging"
    /\ RenamePossible(tree, tp[p].staging, tp[p].target)
    /\ tree' = RenameTree(tree, tp[p].staging, tp[p].target)
    /\ tp' = [tp EXCEPT ![p].pc = "pr_cleanup"]
    /\ hist' = [hist EXCEPT ![p].promoted = TRUE,
                            ![p].order = Append(@, "rename_staging")]
    /\ UNCHANGED <<settings, txFaults>>
    /\ UNCHANGED notTx

\* ... the Err arm
pr_rename_staging_fails(p) ==
    /\ tp[p].pc = "pr_rename_staging"
    /\ RenameFails(tp[p].staging, tp[p].target)
    /\ tp' = [tp EXCEPT ![p].pc = "pr_repair_clean"]
    /\ UNCHANGED <<tree, settings, hist>>
    /\ UNCHANGED notTx

\* let _ = clean_path(backup); Ok(())
pr_cleanup(p) ==
    /\ tp[p].pc = "pr_cleanup"
    /\ \/ tree' = clean_path(tree, tp[p].backup) /\ UNCHANGED txFaults
       \/ tree' \in CleanPathFailures(tree, tp[p].backup) /\ TxInjectFault
    /\ tp' = [tp EXCEPT ![p] = PromoteReturns(p, FALSE)]
    /\ hist' = [hist EXCEPT ![p].order = Append(@, "clean_backup_best_effort")]
    /\ UNCHANGED settings
    /\ UNCHANGED notTx

\* let _ = clean_path(profile);
pr_repair_clean(p) ==
    /\ tp[p].pc = "pr_repair_clean"
    /\ \/ tree' = clean_path(tree, tp[p].target) /\ UNCHANGED txFaults
       \/ tree' \in CleanPathFailures(tree, tp[p].target) /\ TxInjectFault
    /\ tp' = [tp EXCEPT ![p].pc = "pr_repair_rename"]
    /\ UNCHANGED <<settings, hist>>
    /\ UNCHANGED notTx

\* Variant: the Err arm returns without moving the backup back.
pr_repair_without_rename(p) ==
    /\ tp[p].pc = "pr_repair_rename"
    /\ tp' = [tp EXCEPT ![p] = PromoteReturns(p, TRUE)]
    /\ UNCHANGED <<tree, settings, txFaults, hist>>
    /\ UNCHANGED notTx
\* if backup.exists() { let _ = fs::rename(backup, profile); }  Err(...)
pr_repair_rename(p) ==
    /\ tp[p].pc = "pr_repair_rename"
    /\ IF PathExists(tree, tp[p].backup)
       THEN \/ /\ RenamePossible(tree, tp[p].backup, tp[p].target)
               /\ tree' = RenameTree(tree, tp[p].backup, tp[p].target)
               /\ UNCHANGED <<txFaults, hist>>
            \/ /\ RenameFails(tp[p].backup, tp[p].target)
               /\ hist' = [hist EXCEPT ![p].repair_failed = TRUE]
               /\ UNCHANGED tree
       ELSE UNCHANGED <<tree, txFaults, hist>>
    /\ tp' = [tp EXCEPT ![p] = PromoteReturns(p, TRUE)]
    /\ UNCHANGED settings
    /\ UNCHANGED notTx

(* ---------------------------------------------------- install_snr_release *)
\* install_snr_release: an error of install_snr_release_inner is reported by
\* the "failed" progress event and returned.
\* Variant: the error is returned without the "failed" event.
InstallFailsQuietly(p, kind) ==
    [tp[p] EXCEPT !.pc = "returned", !.result = "err", !.err = kind]
InstallFails(p, kind) ==
    [tp[p] EXCEPT !.pc = "returned", !.result = "err", !.err = kind,
                  !.ev = Append(@, "failed")]
StartHist(p) == hist' = [hist EXCEPT ![p].started = TRUE, ![p].pre = tree]

\* Argument validation, then install_snr_release_inner up to "resolving".
install_snr_release(p, tag, restore_preserved_save_data) ==
    /\ tp[p].pc = "idle"
    /\ tp' = [tp EXCEPT ![p] =
                IF tag = ""
                THEN [@ EXCEPT !.pc = "returned", !.op = "install", !.result = "err",
                               !.err = "tag_required"]
                ELSE [@ EXCEPT !.pc = "i_fetch", !.op = "install", !.tag = tag,
                               !.restore = restore_preserved_save_data,
                               !.ev = <<"resolving">>]]
    /\ StartHist(p)
    /\ UNCHANGED <<tree, settings, txFaults>>
    /\ UNCHANGED notTx

\* Variant: every command stages and backs up under paths of its own.
i_fetch_private_paths(p, package) ==
    /\ tp[p].pc = "i_fetch"
    /\ tp' = [tp EXCEPT ![p].pc = "i_clean_staging", ![p].package = package,
                        ![p].target = ProfilePath,
                        ![p].staging = <<"private", p, "staging">>,
                        ![p].backup = <<"private", p, "backup">>,
                        ![p].ev = Append(@, "downloading")]
    /\ UNCHANGED <<tree, settings, txFaults, hist>>
    /\ UNCHANGED notTx
\* Release metadata, settings, the parent directory, the download into the
\* cache, make_profile_paths.  The downloaded zip is kept as its entries.
i_fetch(p, package) ==
    /\ tp[p].pc = "i_fetch"
    /\ tp' = [tp EXCEPT ![p].pc = "i_clean_staging", ![p].package = package,
                        ![p].target = ProfilePath,
                        ![p].staging = make_profile_paths(ProfilePath).staging,
                        ![p].backup = make_profile_paths(ProfilePath).backup,
                        ![p].ev = Append(@, "downloading")]
    /\ UNCHANGED <<tree, settings, txFaults, hist>>
    /\ UNCHANGED notTx

i_fetch_fails(p) ==
    /\ tp[p].pc = "i_fetch"
    /\ TxInjectFault
    /\ tp' = [tp EXCEPT ![p] = InstallFails(p, "download")]
    /\ UNCHANGED <<tree, settings, hist>>
    /\ UNCHANGED notTx

\* clean_path(&staging_path)?
i_clean_staging(p) ==
    /\ tp[p].pc = "i_clean_staging"
    /\ tree' = clean_path(tree, tp[p].staging)
    /\ tp' = [tp EXCEPT ![p].pc = "i_clean_backup"]
    /\ UNCHANGED <<settings, txFaults, hist>>
    /\ UNCHANGED notTx

i_clean_staging_fails(p) ==
    /\ tp[p].pc = "i_clean_staging"
    /\ tree' \in CleanPathFailures(tree, tp[p].staging)
    /\ TxInjectFault
    /\ tp' = [tp EXCEPT ![p] = InstallFails(p, "io")]
    /\ UNCHANGED <<settings, hist>>
    /\ UNCHANGED notTx

\* clean_path(&backup_path)?
i_clean_backup(p) ==
    /\ tp[p].pc = "i_clean_backup"
    /\ tree' = clean_path(tree, tp[p].backup)
    /\ tp' = [tp EXCEPT ![p].pc = "i_extract", ![p].ev = Append(@, "extracting")]
    /\ UNCHANGED <<settings, txFaults, hist>>
    /\ UNCHANGED notTx

i_clean_backup_fails(p) ==
    /\ tp[p].pc = "i_clean_backup"
    /\ tree' \in CleanPathFailures(tree, tp[p].backup)
    /\ TxInjectFault
    /\ tp' = [tp EXCEPT ![p] = InstallFails(p, "io")]
    /\ UNCHANGED <<settings, hist>>
    /\ UNCHANGED notTx

\* zip::extract_zip: the destination is created, then the entries are written
\* in order; the first entry enclosed_name refuses ends the extraction.
UnsafeIndexes(entries) == {i \in 1..Len(entries) : ~enclosed_name(entries[i].name)}
FirstUnsafe(entries) ==
    IF UnsafeIndexes(entries) = {} THEN 0
    ELSE CHOOSE i \in UnsafeIndexes(entries) : \A j \in UnsafeIndexes(entries) : i <= j
RECURSIVE ExtractEntries(_, _, _, _)
ExtractEntries(t, entries, n, destination) ==
    IF n = 0 THEN create_dir_all(t, destination)
    ELSE LET done == ExtractEntries(t, entries, n - 1, destination)
             entry == entries[n]
             output_path == destination \o entry.name
         IN IF entry.dir THEN create_dir_all_raw(done, output_path)
            ELSE WriteFile(create_dir_all_raw(done, SubSeq(output_path, 1,
                                                          Len(output_path) - 1)),
                           Resolve(output_path), entry.data)
\* Variant: an extraction that does not stop at an unsafe entry.
ExtractAllEntries(entries) == Len(entries)
\* the number of entries extract_zip writes when no filesystem call fails
ExtractableCount(entries) ==
    IF FirstUnsafe(entries) = 0 THEN Len(entries) ELSE FirstUnsafe(entries) - 1

i_extract(p) ==
    /\ tp[p].pc = "i_extract"
    /\ tree' = ExtractEntries(tree, tp[p].package, ExtractableCount(tp[p].package),
                              tp[p].staging)
    /\ tp' = [tp EXCEPT ![p] =
                IF FirstUnsafe(tp[p].package) # 0 THEN InstallFails(p, "unsafe_entry")
                ELSE [@ EXCEPT !.pc = "i_patchers"]]
    /\ UNCHANGED <<settings, txFaults, hist>>
    /\ UNCHANGED notTx

\* A filesystem call of extract_zip fails: before the destination exists
\* (created = FALSE) or after n entries.
i_extract_fails(p, created, n) ==
    /\ tp[p].pc = "i_extract"
    /\ n \in 0..ExtractableCount(tp[p].package)
    /\ n < Len(tp[p].package)
    /\ ~created => n = 0
    /\ tree' = IF created THEN ExtractEntries(tree, tp[p].package, n, tp[p].staging)
               ELSE tree
    /\ TxInjectFault
    /\ tp' = [tp EXCEPT ![p] = InstallFails(p, "io")]
    /\ UNCHANGED <<settings, hist>>
    /\ UNCHANGED notTx

\* download_patchers_into_staging, best effort: a patcher is written into
\* <staging>/BepInEx/patchers or the synchronisation is skipped.
i_patchers(p, synced) ==
    /\ tp[p].pc = "i_patchers"
    /\ tree' = IF synced
               THEN WriteFile(tree, tp[p].staging \o <<"BepInEx", "patchers", "p.dll">>, <<1>>)
               ELSE tree
    /\ tp' = [tp EXCEPT ![p].pc = IF tp[p].restore THEN "i_restore" ELSE "i_verify",
                        ![p].ev = Append(@, "patchers")]
    /\ UNCHANGED <<settings, txFaults, hist>>
    /\ UNCHANGED notTx

\* restore_preserved_save_data_into_profile(app, &staging_path)?
PreservedFiles(t) == DOMAIN Content(t, preserved_save_data_path)
i_restore(p) ==
    /\ tp[p].pc = "i_restore"
    /\ tree' = IF PathExists(tree, preserved_save_data_path)
               THEN CopyFiles(tree, preserved_save_data_path, tp[p].staging,
                              PreservedFiles(tree))
               ELSE tree
    /\ tp' = [tp EXCEPT ![p].pc = "i_verify", ![p].ev = Append(@, "restoring")]
    /\ UNCHANGED <<settings, txFaults, hist>>
    /\ UNCHANGED notTx

\* ... a copy fails after the files S were restored.
i_restore_fails(p, S) ==
    /\ tp[p].pc = "i_restore"
    /\ S \subseteq PreservedFiles(tree) /\ S # PreservedFiles(tree)
    /\ tree' = CopyFiles(tree, preserved_save_data_path, tp[p].staging, S)
    /\ TxInjectFault
    /\ tp' = [tp EXCEPT ![p] = InstallFails(p, "io")]
    /\ UNCHANGED <<settings, hist>>
    /\ UNCHANGED notTx

\* settings::verify_profile_required_files
verify_profile_required_files(t, profile_path) ==
    \A relative_path \in required_profile_files : PathIsFile(t, profile_path \o relative_path)

\* verify_profile_required_files(&staging_path)?; then promote_staging_to_profile
\* is called.
i_verify(p) ==
    /\ tp[p].pc = "i_verify"
    /\ IF verify_profile_required_files(tree, tp[p].staging)
       THEN /\ tp' = [tp EXCEPT ![p].pc = "pr_clean_backup"]
            /\ EnterPromote(p, tree)
       ELSE /\ tp' = [tp EXCEPT ![p] = InstallFails(p, "missing_required")]
            /\ UNCHANGED hist
    /\ UNCHANGED <<tree, settings, txFaults>>
    /\ UNCHANGED notTx

\* promote_staging_to_profile(...)? in install_snr_release_inner
install_after_promote(p) ==
    /\ tp[p].pc = "pr_returned" /\ tp[p].op = "install"
    /\ tp' = [tp EXCEPT ![p] = IF tp[p].perr THEN InstallFails(p, "promote")
                               ELSE [@ EXCEPT !.pc = "i_save"]]
    /\ UNCHANGED <<tree, settings, txFaults, hist>>
    /\ UNCHANGED notTx

\* settings::save_settings(app, &launcher_settings)?; "complete"; Ok(..)
i_save(p) ==
    /\ tp[p].pc = "i_save"
    /\ settings' = [settings EXCEPT !.selected_release_tag = tp[p].tag]
    /\ tp' = [tp EXCEPT ![p].pc = "returned", ![p].result = "ok",
                        ![p].ev = Append(@, "complete")]
    /\ UNCHANGED <<tree, txFaults, hist>>
    /\ UNCHANGED notTx

i_save_fails(p) ==
    /\ tp[p].pc = "i_save"
    /\ TxInjectFault
    /\ tp' = [tp EXCEPT ![p] = InstallFails(p, "save_settings")]
    /\ UNCHANGED <<tree, settings, hist>>
    /\ UNCHANGED notTx

(* ----------------------------- import_savedata_from_among_us_into_profile *)
\* preview_savedata_from_among_us, profile_save_data_path,
\* create_dir_all(target_parent), and the staging and backup paths.
import_savedata_from_among_us_into_profile(p) ==
    /\ tp[p].pc = "idle"
    /\ StartHist(p)
    /\ LET source == source_save_data_path_from_among_us(AmongUsPath)
           target == profile_save_data_path
           target_parent == SubSeq(target, 1, Len(target) - 1)
       IN IF ~PathIsDir(tree, source)
          THEN /\ tp' = [tp EXCEPT ![p].pc = "returned", ![p].op = "import",
                                   ![p].result = "err", ![p].err = "no_source"]
               /\ UNCHANGED <<tree, txFaults>>
          ELSE \/ /\ tree' = create_dir_all(tree, target_parent)
                  /\ tp' = [tp EXCEPT ![p].pc = "s_clean_staging", ![p].op = "import",
                               ![p].target = target,
                               ![p].staging = target_parent \o <<SAVE_DATA_STAGING_DIR_NAME>>,
                               ![p].backup = target_parent \o <<SAVE_DATA_BACKUP_DIR_NAME>>]
                  /\ UNCHANGED txFaults
               \/ /\ TxInjectFault
                  /\ tp' = [tp EXCEPT ![p].pc = "returned", ![p].op = "import",
                                      ![p].result = "err", ![p].err = "io"]
                  /\ UNCHANGED tree
    /\ UNCHANGED settings
    /\ UNCHANGED notTx

ImportFails(p, kind) == [tp[p] EXCEPT !.pc = "returned", !.result = "err", !.err = kind]

\* clean_path(&staging_path)?
s_clean_staging(p) ==
    /\ tp[p].pc = "s_clean_staging"
    /\ tree' = clean_path(tree, tp[p].staging)
    /\ tp' = [tp EXCEPT ![p].pc = "s_clean_backup"]
    /\ UNCHANGED <<settings, txFaults, hist>>
    /\ UNCHANGED notTx

s_clean_staging_fails(p) ==
    /\ tp[p].pc = "s_clean_staging"
    /\ tree' \in CleanPathFailures(tree, tp[p].staging)
    /\ TxInjectFault
    /\ tp' = [tp EXCEPT ![p] = ImportFails(p, "io")]
    /\ UNCHANGED <<settings, hist>>
    /\ UNCHANGED notTx

\* clean_path(&backup_path)?
s_clean_backup(p) ==
    /\ tp[p].pc = "s_clean_backup"
    /\ tree' = clean_path(tree, tp[p].backup)
    /\ tp' = [tp EXCEPT ![p].pc = "s_copy"]
    /\ UNCHANGED <<settings, txFaults, hist>>
    /\ UNCHANGED notTx

s_clean_backup_fails(p) ==
    /\ tp[p].pc = "s_clean_backup"
    /\ tree' \in CleanPathFailures(tree, tp[p].backup)
    /\ TxInjectFault
    /\ tp' = [tp EXCEPT ![p] = ImportFails(p, "io")]
    /\ UNCHANGED <<settings, hist>>
    /\ UNCHANGED notTx

\* copy_directory_recursive(&source_save_data_path, &staging_path), then
\* promote_staging_to_profile is called.
SourceFiles(t) == DOMAIN Content(t, source_save_data_path_from_among_us(AmongUsPath))
s_copy(p) ==
    /\ tp[p].pc = "s_copy"
    /\ PathIsDir(tree, source_save_data_path_from_among_us(AmongUsPath))
    /\ tree' = CopyFiles(create_dir_all(tree, tp[p].staging),
                         source_save_data_path_from_among_us(AmongUsPath),
                         tp[p].staging, SourceFiles(tree))
    /\ tp' = [tp EXCEPT ![p].pc = "pr_clean_backup"]
    /\ EnterPromote(p, tree')
    /\ UNCHANGED <<settings, txFaults>>
    /\ UNCHANGED notTx

\* ... the copy fails after the files S; the staging directory exists when
\* create_dir_all had succeeded.
s_copy_fails(p, created, S) ==
    /\ tp[p].pc = "s_copy"
    /\ S \subseteq SourceFiles(tree) /\ S # SourceFiles(tree)
    /\ ~created => S = {}
    /\ tree' = IF created
               THEN CopyFiles(create_dir_all(tree, tp[p].staging),
                              source_save_data_path_from_among_us(AmongUsPath),
                              tp[p].staging, S)
               ELSE tree
    /\ TxInjectFault
    /\ tp' = [tp EXCEPT ![p].pc = "s_copy_cleanup"]
    /\ UNCHANGED <<settings, hist>>
    /\ UNCHANGED notTx

\* let _ = clean_path(&staging_path); return Err(error);
s_copy_cleanup(p) ==
    /\ tp[p].pc = "s_copy_cleanup"
    /\ \/ tree' = clean_path(tree, tp[p].staging) /\ UNCHANGED txFaults
       \/ tree' \in CleanPathFailures(tree, tp[p].staging) /\ TxInjectFault
    /\ tp' = [tp EXCEPT ![p] = ImportFails(p, "io")]
    /\ UNCHANGED <<settings, hist>>
    /\ UNCHANGED notTx

\* if let Err(error) = promote_staging_to_profile(...)
import_after_promote(p) ==
    /\ tp[p].pc = "pr_returned" /\ tp[p].op = "import"
    /\ tp' = [tp EXCEPT ![p] = IF tp[p].perr THEN [@ EXCEPT !.pc = "s_err_clean_staging"]
                               ELSE [@ EXCEPT !.pc = "returned", !.result = "ok"]]
    /\ UNCHANGED <<tree, settings, txFaults, hist>>
    /\ UNCHANGED notTx

\* let _ = clean_path(&staging_path);
s_err_clean_staging(p) ==
    /\ tp[p].pc = "s_err_clean_staging"
    /\ \/ tree' = clean_path(tree, tp[p].staging) /\ UNCHANGED txFaults
       \/ tree' \in CleanPathFailures(tree, tp[p].staging) /\ TxInjectFault
    /\ tp' = [tp EXCEPT ![p].pc = "s_err_clean_backup"]
    /\ UNCHANGED <<settings, hist>>
    /\ UNCHANGED notTx

\* let _ = clean_path(&backup_path); return Err(error);
s_err_clean_backup(p) ==
    /\ tp[p].pc = "s_err_clean_backup"
    /\ \/ tree' = clean_path(tree, tp[p].backup) /\ UNCHANGED txFaults
       \/ tree' \in CleanPathFailures(tree, tp[p].backup) /\ TxInjectFault
    /\ tp' = [tp EXCEPT ![p] = ImportFails(p, "promote")]
    /\ UNCHANGED <<settings, hist>>
    /\ UNCHANGED notTx

(* -------------------------------------------------- uninstall_snr_profile *)
UninstallFails(p, kind) == [tp[p] EXCEPT !.pc = "returned", !.result = "err", !.err = kind]

\* Settings and the parent directory; with preserve_save_data the first call
\* of preserve_profile_save_data: collect_supported_profile_save_files.
uninstall_snr_profile(p, preserve_save_data) ==
    /\ tp[p].pc = "idle"
    /\ StartHist(p)
    /\ tp' = [tp EXCEPT ![p].pc = IF preserve_save_data THEN "u_clean_preserved"
                                  ELSE "u_clear_preserved",
                        ![p].op = "uninstall", ![p].preserve = preserve_save_data,
                        ![p].target = ProfilePath,
                        ![p].todo = IF preserve_save_data
                                    THEN {r \in DOMAIN Content(tree, ProfilePath) :
                                            MatchesProfilePattern(r)}
                                    ELSE {}]
    /\ UNCHANGED <<tree, settings, txFaults>>
    /\ UNCHANGED notTx

\* load_or_init_settings, create_dir_all(parent) or the collection fails.
uninstall_start_fails(p) ==
    /\ tp[p].pc = "idle"
    /\ StartHist(p)
    /\ TxInjectFault
    /\ tp' = [tp EXCEPT ![p] = [UninstallFails(p, "io") EXCEPT !.op = "uninstall"]]
    /\ UNCHANGED <<tree, settings>>
    /\ UNCHANGED notTx

\* preserve_profile_save_data: clean_path(&preserved_path)?
u_clean_preserved(p) ==
    /\ tp[p].pc = "u_clean_preserved"
    /\ tree' = clean_path(tree, preserved_save_data_path)
    /\ tp' = [tp EXCEPT ![p].pc = "u_create_preserved"]
    /\ UNCHANGED <<settings, txFaults, hist>>
    /\ UNCHANGED notTx

u_clean_preserved_fails(p) ==
    /\ tp[p].pc = "u_clean_preserved"
    /\ tree' \in CleanPathFailures(tree, preserved_save_data_path)
    /\ TxInjectFault
    /\ tp' = [tp EXCEPT ![p] = UninstallFails(p, "preserve")]
    /\ UNCHANGED <<settings, hist>>
    /\ UNCHANGED notTx

\* fs::create_dir_all(&preserved_path)?; Ok(0) when there is no file
u_create_preserved(p) ==
    /\ tp[p].pc = "u_create_preserved"
    /\ tree' = create_dir_all(tree, preserved_save_data_path)
    /\ tp' = [tp EXCEPT ![p].pc = IF tp[p].todo = {} THEN "u_clean_profile" ELSE "u_copy"]
    /\ UNCHANGED <<settings, txFaults, hist>>
    /\ UNCHANGED notTx

u_create_preserved_fails(p) ==
    /\ tp[p].pc = "u_create_preserved"
    /\ TxInjectFault
    /\ tp' = [tp EXCEPT ![p] = UninstallFails(p, "preserve")]
    /\ UNCHANGED <<tree, settings, hist>>
    /\ UNCHANGED notTx

\* Variant: the loop creates the parent directory and copies nothing.
u_copy_nothing(p, relative) ==
    /\ tp[p].pc = "u_copy" /\ relative \in tp[p].todo
    /\ tp' = [tp EXCEPT ![p].todo = @ \ {relative},
                        ![p].pc = IF tp[p].todo = {relative} THEN "u_clean_profile"
                                  ELSE "u_copy"]
    /\ UNCHANGED <<tree, settings, txFaults, hist>>
    /\ UNCHANGED notTx
\* one file of the loop: create_dir_all(parent)?; fs::copy(source, destination)?
u_copy(p, relative) ==
    /\ tp[p].pc = "u_copy" /\ relative \in tp[p].todo
    /\ PathIsFile(tree, ProfilePath \o relative)
    /\ tree' = CopyFiles(tree, ProfilePath, preserved_save_data_path, {relative})
    /\ tp' = [tp EXCEPT ![p].todo = @ \ {relative},
                        ![p].pc = IF tp[p].todo = {relative} THEN "u_clean_profile"
                                  ELSE "u_copy"]
    /\ UNCHANGED <<settings, txFaults, hist>>
    /\ UNCHANGED notTx

\* ... the copy fails (also when the file is gone by now).
u_copy_fails(p, relative) ==
    /\ tp[p].pc = "u_copy" /\ relative \in tp[p].todo
    /\ IF PathIsFile(tree, ProfilePath \o relative) THEN TxInjectFault
       ELSE UNCHANGED txFaults
    /\ tp' = [tp EXCEPT ![p] = UninstallFails(p, "preserve")]
    /\ UNCHANGED <<tree, settings, hist>>
    /\ UNCHANGED notTx

\* clear_preserved_save_data(&app)?
u_clear_preserved(p) ==
    /\ tp[p].pc = "u_clear_preserved"
    /\ tree' = clean_path(tree, preserved_save_data_path)
    /\ tp' = [tp EXCEPT ![p].pc = "u_clean_profile"]
    /\ UNCHANGED <<settings, txFaults, hist>>
    /\ UNCHANGED notTx

u_clear_preserved_fails(p) ==
    /\ tp[p].pc = "u_clear_preserved"
    /\ tree' \in CleanPathFailures(tree, preserved_save_data_path)
    /\ TxInjectFault
    /\ tp' = [tp EXCEPT ![p] = UninstallFails(p, "preserve")]
    /\ UNCHANGED <<settings, hist>>
    /\ UNCHANGED notTx

\* clean_path(&profile_path)?
u_clean_profile(p) ==
    /\ tp[p].pc = "u_clean_profile"
    /\ tree' = clean_path(tree, tp[p].target)
    /\ tp' = [tp EXCEPT ![p].pc = "u_recreate"]
    /\ UNCHANGED <<settings, txFaults, hist>>
    /\ UNCHANGED notTx

u_clean_profile_fails(p) ==
    /\ tp[p].pc = "u_clean_profile"
    /\ tree' \in CleanPathFailures(tree, tp[p].target)
    /\ TxInjectFault
    /\ tp' = [tp EXCEPT ![p] = UninstallFails(p, "clean_profile")]
    /\ UNCHANGED <<settings, hist>>
    /\ UNCHANGED notTx

\* fs::create_dir_all(&profile_path)?; Ok(UninstallResult)
u_recreate(p) ==
    /\ tp[p].pc = "u_recreate"
    /\ tree' = create_dir_all(tree, tp[p].target)
    /\ tp' = [tp EXCEPT ![p].pc = "returned", ![p].result = "ok"]
    /\ UNCHANGED <<settings, txFaults, hist>>
    /\ UNCHANGED notTx

u_recreate_fails(p) ==
    /\ tp[p].pc = "u_recreate"
    /\ TxInjectFault
    /\ tp' = [tp EXCEPT ![p] = UninstallFails(p, "recreate")]
    /\ UNCHANGED <<tree, settings, hist>>
    /\ UNCHANGED notTx

TxNext ==
    \E p \in Procs :
        \/ \E tag \in Tags \cup {""}, r \in BOOLEAN : install_snr_release(p, tag, r)
        \/ \E package \in Packages : i_fetch(p, package)
        \/ i_fetch_fails(p)
        \/ i_clean_staging(p)
        \/ i_clean_staging_fails(p)
        \/ i_clean_backup(p)
        \/ i_clean_backup_fails(p)
        \/ i_extract(p)
        \/ \E c \in BOOLEAN, n \in 0..3 : i_extract_fails(p, c, n)
        \/ \E synced \in BOOLEAN : i_patchers(p, synced)
        \/ i_restore(p)
        \/ \E S \in SUBSET PreservedFiles(tree) : i_restore_fails(p, S)
        \/ i_verify(p)
        \/ install_after_promote(p)
        \/ i_save(p)
        \/ i_save_fails(p)
        \/ import_savedata_from_among_us_into_profile(p)
        \/ s_clean_staging(p)
        \/ s_clean_staging_fails(p)
        \/ s_clean_backup(p)
        \/ s_clean_backup_fails(p)
        \/ s_copy(p)
        \/ \E c \in BOOLEAN, S \in SUBSET SourceFiles(tree) : s_copy_fails(p, c, S)
        \/ s_copy_cleanup(p)
        \/ import_after_promote(p)
        \/ s_err_clean_staging(p)
        \/ s_err_clean_backup(p)
        \/ \E preserve \in BOOLEAN : uninstall_snr_profile(p, preserve)
        \/ uninstall_start_fails(p)
        \/ u_clean_preserved(p)
        \/ u_clean_preserved_fails(p)
        \/ u_create_preserved(p)
        \/ u_create_preserved_fails(p)
        \/ \E r \in ManagedRels : u_copy(p, r)
        \/ \E r \in ManagedRels : u_copy_fails(p, r)
        \/ u_clear_preserved(p)
        \/ u_clear_preserved_fails(p)
        \/ u_clean_profile(p)
        \/ u_clean_profile_fails(p)
        \/ u_recreate(p)
        \/ u_recreate_fails(p)
        \/ pr_clean_backup(p)
        \/ pr_rename_profile(p)
        \/ pr_rename_profile_fails(p)
        \/ pr_rename_staging(p)
        \/ pr_rename_staging_fails(p)
        \/ pr_cleanup(p)
        \/ pr_repair_clean(p)
        \/ pr_repair_rename(p)

(* ========================================================= specifications *)
vars == <<migVars, txVars, calcVars, presetVars, zipVars, gameVars>>

\* The migration commands alone.
MigSpecInit == MigInit /\ TxIdle /\ CalcIdle /\ PresetIdle /\ ZipIdle /\ GameIdle
SpecMig == MigSpecInit /\ [][MigNext]_vars
\* One install, SaveData import or uninstall.
TxSpecInit == TxInit /\ MigIdle /\ CalcIdle /\ PresetIdle /\ ZipIdle /\ GameIdle
SpecTx == TxSpecInit /\ [][TxNext]_vars

\* Two commands at once on the same profile: tauri runs every command on its
\* own thread and snr_service.rs takes no lock.  No filesystem call fails by
\* itself here; what fails, fails because of the other command.
RaceTrees == {
    TreeOf(<< <<ProfilePath \o <<"req.dll">>, <<1>>>> >>),
    TreeOf(<< <<ProfilePath \o <<"req.dll">>, <<1>>>>, <<ProfilePath \o <<"a">>, <<1>>>> >>) }
RaceInit ==
    /\ tree \in RaceTrees
    /\ settings = [selected_release_tag |-> ""]
    /\ tp = [p \in Procs |-> IdleProc]
    /\ txFaults = 0
    /\ hist = [p \in Procs |-> NoHist]
RaceNext ==
    \E p \in Procs :
        \/ \E tag \in Tags : install_snr_release(p, tag, FALSE)
        \/ \E package \in Packages : i_fetch(p, package)
        \/ i_clean_staging(p)
        \/ i_clean_backup(p)
        \/ i_extract(p)
        \/ i_patchers(p, FALSE)
        \/ i_verify(p)
        \/ install_after_promote(p)
        \/ i_save(p)
        \/ \E preserve \in BOOLEAN : uninstall_snr_profile(p, preserve)
        \/ u_clean_preserved(p)
        \/ u_create_preserved(p)
        \/ \E r \in ManagedRels : u_copy(p, r)
        \/ \E r \in ManagedRels : u_copy_fails(p, r)
        \/ u_clear_preserved(p)
        \/ u_clean_profile(p)
        \/ u_recreate(p)
        \/ pr_clean_backup(p)
        \/ pr_rename_profile(p)
        \/ pr_rename_profile_fails(p)
        \/ pr_rename_staging(p)
        \/ pr_rename_staging_fails(p)
        \/ pr_cleanup(p)
        \/ pr_repair_clean(p)
        \/ pr_repair_rename(p)
RaceSpecInit == RaceInit /\ MigIdle /\ CalcIdle /\ PresetIdle /\ ZipIdle /\ GameIdle
SpecRace == RaceSpecInit /\ [][RaceNext]_vars

(* ------------------------------------------- reading a container, alone *)
\* The byte strings handed to extract_zip_bytes_from_archive_bytes: with the
\* configured magic, the legacy magic, a zip signature, a cut magic or nothing
\* in front; no, one or both header bytes; versions and flags around the valid
\* ones; and encrypted containers, intact, cut, or with one byte changed
\* anywhere behind the header (salt, nonce, ciphertext, tag).
ContainerFronts == {archive_magic_bytes, LEGACY_ARCHIVE_MAGIC, <<80, 75>>, <<83, 78, 82>>, <<>>}
ContainerHeaders ==
    {<<>>} \cup {<<v>> : v \in {0, ARCHIVE_VERSION, 2}}
           \cup {<<v, f>> : v \in {0, ARCHIVE_VERSION, 2}, f \in {0, 1, 2, 3, 128, 255}}
ContainerPayloads == {<<>>, <<80, 75>>, <<7, 8, 9>>}
PlainInputs ==
    {front \o header \o payload :
        front \in ContainerFronts, header \in ContainerHeaders, payload \in ContainerPayloads}
SealedContainer ==
    build_snrdata_container(<<80, 75>>, TRUE, {<<1>>}, RandomFill(ENCRYPTION_SALT_LEN, 5),
                            RandomFill(ENCRYPTION_NONCE_LEN, 5)).bytes
HeaderLen == Len(archive_magic_bytes) + 2
Corrupted(bytes, i) == [bytes EXCEPT ![i] = (@ + 1) % 256]
CorruptedContainers == {Corrupted(SealedContainer, i) : i \in (HeaderLen + 1)..Len(SealedContainer)}
CutContainers == {SubSeq(SealedContainer, 1, n) : n \in HeaderLen..(Len(SealedContainer) - 1)}
ContainerInputs == PlainInputs \cup {SealedContainer} \cup CorruptedContainers \cup CutContainers

ContainerInit ==
    /\ call \in [fn : {"extract_zip_bytes_from_archive_bytes"}, archive_bytes : ContainerInputs,
                 password : PasswordOptions]
    /\ ret = NoRet
read_container ==
    /\ call.fn = "extract_zip_bytes_from_archive_bytes" /\ ~ret.done
    /\ ret' = Returned(extract_zip_bytes_from_archive_bytes(call.archive_bytes, call.password))
    /\ UNCHANGED <<call, notCalc>>
ContainerSpecInit == ContainerInit /\ MigIdle /\ TxIdle /\ PresetIdle /\ ZipIdle /\ GameIdle
SpecContainer == ContainerSpecInit /\ [][read_container]_vars

(* ================================================== presets: Options.data *)
(* presets.rs.  An i32 is an integer of -2^31 .. 2^31 - 1, a byte one of
   0 .. 255, a name the sequence of its UTF-8 bytes.                        *)
I32Min == -2147483647 - 1
I32Max == 2147483647
\* i32::to_le_bytes, i32::from_le_bytes
to_le_bytes(v) ==
    LET w == IF v >= 0 THEN v ELSE (v + I32Max) + 1
        top == (w \div 16777216) + (IF v >= 0 THEN 0 ELSE 128)
    IN <<w % 256, (w \div 256) % 256, (w \div 65536) % 256, top>>
from_le_bytes(b) ==
    LET low == b[1] + 256 * b[2] + 65536 * b[3]
    IN IF b[4] >= 128 THEN (((b[4] - 128) * 16777216 + low) - I32Max) - 1
       ELSE b[4] * 16777216 + low

ParseErr(kind) == [ok |-> FALSE, err |-> kind]
\* read_i32_le at the 0-based cursor
read_i32_le(bytes, cursor) ==
    IF cursor + 4 > Len(bytes) THEN ParseErr("unexpected_end")
    ELSE [ok |-> TRUE, value |-> from_le_bytes(SubSeq(bytes, cursor + 1, cursor + 4)),
          cursor |-> cursor + 4]

\* A usize is wider than the integers at hand: it is kept as two limbs, the
\* value being hi * 2^28 + lo with lo < 2^28.
LimbBits == 128 * 128 * 128 * 128
Wide(hi, lo) == [hi |-> hi, lo |-> lo]
WideOf(n) == Wide(n \div LimbBits, n % LimbBits)
\* value | (group << (7 * round)), for a value with no bit at or above 7 * round.
OrGroup(value, group, round) ==
    IF round < 4 THEN Wide(value.hi, value.lo + group * (128 ^ round))
    ELSE Wide(value.hi + group * (128 ^ (round - 4)), value.lo)
\* value >> 7
ShiftRight7(value) ==
    Wide(value.hi \div 128, (value.lo \div 128) + (value.hi % 128) * (128 * 128 * 128))

\* read_7bit_encoded_int: at most five bytes, seven bits each, low bits first
RECURSIVE Read7BitFrom(_, _, _, _, _)
Read7BitFrom(bytes, cursor, value, round, rounds) ==
    IF round = rounds THEN ParseErr("invalid_7bit")
    ELSE IF cursor >= Len(bytes) THEN ParseErr("unexpected_end")
    ELSE LET byte == bytes[cursor + 1]
             v == OrGroup(value, byte % 128, round)
         IN IF byte < 128 THEN [ok |-> TRUE, value |-> v, cursor |-> cursor + 1]
            ELSE Read7BitFrom(bytes, cursor + 1, v, round + 1, rounds)
\* Variant: the loop runs four times.
read_7bit_in_four_bytes(bytes, cursor) == Read7BitFrom(bytes, cursor, Wide(0, 0), 0, 4)
read_7bit_encoded_int(bytes, cursor) == Read7BitFrom(bytes, cursor, Wide(0, 0), 0, 5)

\* String::from_utf8 on the names of the model: ASCII bytes are valid, a lone
\* byte of 128 or more is not (multi-byte characters are not modelled).
Utf8Valid(raw) == \A i \in 1..Len(raw) : raw[i] < 128
read_dotnet_string(bytes, cursor) ==
    LET length == read_7bit_encoded_int(bytes, cursor)
    IN IF ~length.ok THEN length
       ELSE IF length.value.hi > 0 \/ length.cursor + length.value.lo > Len(bytes)
       THEN ParseErr("unexpected_end")
       ELSE LET raw == SubSeq(bytes, length.cursor + 1, length.cursor + length.value.lo)
            IN IF Utf8Valid(raw)
               THEN [ok |-> TRUE, value |-> raw, cursor |-> length.cursor + length.value.lo]
               ELSE ParseErr("utf8")

RECURSIVE write_7bit_encoded_int(_)
write_7bit_encoded_int(value) ==
    IF ShiftRight7(value) # Wide(0, 0)
    THEN <<(value.lo % 128) + 128>> \o write_7bit_encoded_int(ShiftRight7(value))
    ELSE <<value.lo % 128>>
\* Variant: the length is written as one byte.
write_short_string(value) == <<Len(value) % 256>> \o value
write_dotnet_string(value) == write_7bit_encoded_int(WideOf(Len(value))) \o value

\* OptionsData: version, current_preset and preset_names (BTreeMap<i32, String>,
\* here a function from the ids to the names).
OptionsData(version, current_preset, preset_names) ==
    [version |-> version, current_preset |-> current_preset, preset_names |-> preset_names]

\* The name loop of parse_options_data: remaining entries, cursor, map so far.
RECURSIVE ParseNames(_, _, _, _)
ParseNames(bytes, cursor, remaining, names) ==
    IF remaining = 0 THEN [ok |-> TRUE, names |-> names]
    ELSE LET preset_id == read_i32_le(bytes, cursor)
         IN IF ~preset_id.ok THEN preset_id
            ELSE LET name == read_dotnet_string(bytes, preset_id.cursor)
                 IN IF ~name.ok THEN name
                    ELSE ParseNames(bytes, name.cursor, remaining - 1,
                                    IF preset_id.value >= 0
                                    THEN Merge(names, preset_id.value :> name.value)
                                    ELSE names)

\* Variant: the product truncated to a byte.
WrappingMulU8(a, b) == (a * b) % 256
\* u16::saturating_mul of two bytes taken as u16
SaturatingMulU16(a, b) == IF a * b > 65535 THEN 65535 ELSE a * b
\* u8::saturating_mul
SaturatingMulU8(a, b) == IF a * b > 255 THEN 255 ELSE a * b

parse_options_data(bytes) ==
    IF Len(bytes) < 11 THEN ParseErr("too_short")
    ELSE IF SaturatingMulU16(bytes[2], bytes[2]) # bytes[3] THEN ParseErr("checksum")
    ELSE LET current_preset == read_i32_le(bytes, 3)
             name_count == read_i32_le(bytes, 7)
         IN IF name_count.value < 0 THEN ParseErr("negative_count")
            ELSE LET names == ParseNames(bytes, 11, name_count.value, EmptyFs)
                 IN IF ~names.ok THEN names
                    ELSE [ok |-> TRUE, err |-> "",
                          options |-> OptionsData(bytes[1], current_preset.value, names.names)]

\* checksum_seed(): subsec_nanos % 15
ChecksumSeeds == 0..14

\* The entries of build_options_data in ascending id order (BTreeMap iteration).
RECURSIVE WriteNames(_)
WriteNames(preset_names) ==
    IF DOMAIN preset_names = {} THEN <<>>
    ELSE LET preset_id == CHOOSE i \in DOMAIN preset_names : \A j \in DOMAIN preset_names : i <= j
         IN to_le_bytes(preset_id) \o write_dotnet_string(preset_names[preset_id])
               \o WriteNames(Restrict(preset_names, (DOMAIN preset_names) \ {preset_id}))

build_options_data(options, seed) ==
    <<IF options.version = 0 THEN 1 ELSE options.version, seed, SaturatingMulU8(seed, seed)>>
        \o to_le_bytes(options.current_preset)
        \o to_le_bytes(Cardinality(DOMAIN options.preset_names))
        \o WriteNames(options.preset_names)

(* ------------------------------------------ the Options.data codec, alone *)
\* The OptionsData values handed to build_options_data; the names include the
\* empty one and one of 130 bytes (a two-byte length prefix).
LongName == [i \in 1..130 |-> 97]
PresetNameMaps == {
    EmptyFs,
    0 :> <<65>>,
    (0 :> <<65>>) @@ (1 :> <<>>),
    (2 :> <<65, 108, 112, 104, 97>>) @@ (300 :> LongName) @@ (I32Max :> <<98>>),
    (-1 :> <<65>>) @@ (5 :> <<66>>) }
OptionsInputs ==
    {OptionsData(v, c, names) :
        v \in {0, 1, 2, 255}, c \in {I32Min, -1, 0, 3, 70000, I32Max}, names \in PresetNameMaps}
\* The records handed to parse_options_data directly: a serialised value with
\* every seed byte and, as checksum byte, the square, the square truncated to
\* a byte, and their neighbours; whole, or cut inside the name table.
RecordBody == to_le_bytes(1) \o to_le_bytes(1) \o to_le_bytes(0) \o write_dotnet_string(<<65>>)
ChecksumBytes(seed) ==
    {(seed * seed) % 256, ((seed * seed) + 1) % 256, SaturatingMulU8(seed, seed), 0}
RecordBodies == {RecordBody, SubSeq(RecordBody, 1, Len(RecordBody) - 1), to_le_bytes(1)}
RecordInputs ==
    UNION {{<<1, seed, checksum>> \o body : checksum \in ChecksumBytes(seed), body \in RecordBodies} :
              seed \in 0..255}

PresetCodecInit ==
    /\ call \in [fn : {"build_options_data"}, options : OptionsInputs]
                   \cup [fn : {"parse_options_data"}, bytes : RecordInputs]
    /\ ret = NoRet
\* build_options_data; the seed is what the clock gives.
build_options ==
    /\ call.fn = "build_options_data" /\ ~ret.done
    /\ \E seed \in ChecksumSeeds : ret' = Returned(build_options_data(call.options, seed))
    /\ UNCHANGED <<call, notCalc>>
\* The written Options.data is read back (load_options_data).
load_options ==
    /\ call.fn = "build_options_data" /\ ret.done
    /\ call' = [fn |-> "parse_options_data", bytes |-> ret.value, written |-> call.options]
    /\ ret' = NoRet
    /\ UNCHANGED notCalc
parse_options ==
    /\ call.fn = "parse_options_data" /\ ~ret.done
    /\ ret' = Returned(parse_options_data(call.bytes))
    /\ UNCHANGED <<call, notCalc>>
PresetCodecNext == build_options \/ load_options \/ parse_options
PresetCodecSpecInit == PresetCodecInit /\ MigIdle /\ TxIdle /\ PresetIdle /\ ZipIdle /\ GameIdle
SpecPresetCodec == PresetCodecSpecInit /\ [][PresetCodecNext]_vars

(* --------------------------------------------- the 7-bit lengths, alone *)
MaxInputLen == 6
\* The values written: around every change of the encoded length, the largest
\* value of five bytes, and the first that needs six.
WrittenValues ==
    {Wide(0, lo) : lo \in {0, 1, 127, 128, 300, 16383, 16384, 2097151, 2097152, LimbBits - 1}}
        \cup {Wide(1, 0), Wide(7, LimbBits - 1), Wide(8, 0), Wide(127, LimbBits - 1),
              Wide(128, 0)}
\* The bytes read: every sequence of up to MaxInputLen bytes with the top bit
\* set or clear and the other bits all set, all clear or the lowest only.
ReadBytes == {0, 1, 127, 128, 129, 255}
ReadInputs == UNION {[1..n -> ReadBytes] : n \in 0..MaxInputLen}
SevenBitInit ==
    /\ call \in [fn : {"write_7bit_encoded_int"}, value : WrittenValues,
                 before : {<<>>, <<255>>}, after : {<<>>, <<0>>, <<128>>}]
                   \cup [fn : {"read_7bit_encoded_int"}, bytes : ReadInputs, cursor : 0..1]
    /\ ret = NoRet
write_7bit ==
    /\ call.fn = "write_7bit_encoded_int" /\ ~ret.done
    /\ ret' = Returned(write_7bit_encoded_int(call.value))
    /\ UNCHANGED <<call, notCalc>>
\* What was written is read, among the bytes before and after it.
read_written ==
    /\ call.fn = "write_7bit_encoded_int" /\ ret.done
    /\ call' = [fn |-> "read_7bit_encoded_int",
                bytes |-> call.before \o ret.value \o call.after,
                cursor |-> Len(call.before),
                written |-> [value |-> call.value, bytes |-> ret.value]]
    /\ ret' = NoRet
    /\ UNCHANGED notCalc
read_7bit ==
    /\ call.fn = "read_7bit_encoded_int" /\ ~ret.done
    /\ ret' = Returned(read_7bit_encoded_int(call.bytes, call.cursor))
    /\ UNCHANGED <<call, notCalc>>
SevenBitNext == write_7bit \/ read_written \/ read_7bit
SevenBitSpecInit == SevenBitInit /\ MigIdle /\ TxIdle /\ PresetIdle /\ ZipIdle /\ GameIdle
SpecSevenBit == SevenBitSpecInit /\ [][SevenBitNext]_vars

(* ------------------------------------------------- presets: file names *)
\* Names are byte strings. "PresetOptions_", ".data", "Options.data", "Preset".
PRESET_FILE_PREFIX == <<80, 114, 101, 115, 101, 116, 79, 112, 116, 105, 111, 110, 115, 95>>
PRESET_FILE_SUFFIX == <<46, 100, 97, 116, 97>>
OPTIONS_FILE_NAME == <<79, 112, 116, 105, 111, 110, 115, 46, 100, 97, 116, 97>>
PresetWord == <<80, 114, 101, 115, 101, 116>>

EndsWith(bs, suffix) ==
    /\ Len(bs) >= Len(suffix)
    /\ SubSeq(bs, Len(bs) - Len(suffix) + 1, Len(bs)) = suffix

\* An integer as format!("{}") prints it.
RECURSIVE Digits(_)
Digits(n) == IF n < 10 THEN <<48 + n>> ELSE Digits(n \div 10) \o <<48 + (n % 10)>>
Display(n) == IF n < 0 THEN <<45>> \o Digits(-n) ELSE Digits(n)

\* str::parse::<i32>: an optional sign, then one digit or more; a value
\* outside i32 is an error. A negative number is accumulated downwards.
IsDigit(c) == c \in 48..57
RECURSIVE ParseDigits(_, _, _)
ParseDigits(s, acc, negative) ==
    IF s = <<>> THEN [ok |-> TRUE, value |-> acc]
    ELSE IF ~IsDigit(Head(s)) THEN [ok |-> FALSE]
    ELSE LET d == Head(s) - 48
         IN IF negative
            THEN IF acc < (I32Min + d + 9) \div 10 THEN [ok |-> FALSE]
                 ELSE ParseDigits(Tail(s), (acc * 10) - d, negative)
            ELSE IF acc > (I32Max - d) \div 10 THEN [ok |-> FALSE]
                 ELSE ParseDigits(Tail(s), (acc * 10) + d, negative)
parse_i32(s) ==
    IF s = <<>> THEN [ok |-> FALSE]
    ELSE IF Head(s) \in {43, 45}
         THEN IF Tail(s) = <<>> THEN [ok |-> FALSE] ELSE ParseDigits(Tail(s), 0, Head(s) = 45)
         ELSE ParseDigits(s, 0, FALSE)

make_default_preset_name(preset_id) ==
    PresetWord \o <<32>> \o Display(IF preset_id = I32Max THEN I32Max ELSE preset_id + 1)
preset_file_name(preset_id) == PRESET_FILE_PREFIX \o Display(preset_id) \o PRESET_FILE_SUFFIX
\* None, or Some(id) with id >= 0.
parse_preset_id_from_local_file_name(file_name) ==
    IF ~StartsWith(file_name, PRESET_FILE_PREFIX) \/ ~EndsWith(file_name, PRESET_FILE_SUFFIX)
    THEN [ok |-> FALSE]
    ELSE LET numeric == SubSeq(file_name, Len(PRESET_FILE_PREFIX) + 1,
                               Len(file_name) - Len(PRESET_FILE_SUFFIX))
             id == parse_i32(numeric)
         IN IF id.ok /\ id.value >= 0 THEN id ELSE [ok |-> FALSE]

\* A directory entry: a regular file with its bytes, or a directory.
RegularFile(data) == [is_file |-> TRUE, data |-> data]
SubDirectory == [is_file |-> FALSE, data |-> <<>>]
is_file(dir, name) == name \in DOMAIN dir /\ dir[name].is_file
\* fs::write: fails on a directory, else creates or replaces the file.
FsWriteOk(dir, name) == name \notin DOMAIN dir \/ dir[name].is_file
FsWrite(dir, name, data) == Merge(dir, name :> RegularFile(data))

\* Variant: the directory is not looked at.
collect_no_preset_ids(save_data_dir) == {}
collect_existing_preset_ids(save_data_dir) ==
    {parse_preset_id_from_local_file_name(name).value :
        name \in {n \in DOMAIN save_data_dir :
                     /\ save_data_dir[n].is_file
                     /\ parse_preset_id_from_local_file_name(n).ok}}
\* Ok(None) when there is no such file, else the parsed file or its error.
load_options_data(dir) ==
    IF ~is_file(dir, OPTIONS_FILE_NAME) THEN [ok |-> TRUE, some |-> FALSE]
    ELSE LET options == parse_options_data(dir[OPTIONS_FILE_NAME].data)
         IN IF options.ok THEN [ok |-> TRUE, some |-> TRUE, value |-> options.options]
            ELSE options

(* ------------------------------------------------ presets: unique names *)
\* str::trim and str::to_lowercase on ASCII text.
IsWhitespace(c) == c \in {9, 10, 11, 12, 13, 32}
RECURSIVE trim_start(_)
trim_start(s) == IF s # <<>> /\ IsWhitespace(Head(s)) THEN trim_start(Tail(s)) ELSE s
RECURSIVE trim_end(_)
trim_end(s) ==
    IF s # <<>> /\ IsWhitespace(s[Len(s)]) THEN trim_end(SubSeq(s, 1, Len(s) - 1)) ELSE s
trim(s) == trim_end(trim_start(s))
to_lowercase(s) == [i \in 1..Len(s) |-> IF s[i] \in 65..90 THEN s[i] + 32 ELSE s[i]]
normalize_name_key(name) == to_lowercase(trim(name))

\* format!("{base} ({index})")
Candidate(base, index) == base \o <<32, 40>> \o Display(index) \o <<41>>
\* The loop of make_unique_name from the given index on.
RECURSIVE FirstFreeIndex(_, _, _)
FirstFreeIndex(base, used_names, index) ==
    IF normalize_name_key(Candidate(base, index)) \notin used_names THEN index
    ELSE FirstFreeIndex(base, used_names, index + 1)
\* Variant: the names compared as written, not by their keys.
make_unique_name_as_written(base_name, used_names) ==
    LET normalized_base == trim(base_name)
        base == IF normalized_base = <<>> THEN PresetWord ELSE normalized_base
    IN IF base \notin used_names THEN base
       ELSE Candidate(base, FirstFreeIndex(base, used_names, 2))
make_unique_name(base_name, used_names) ==
    LET normalized_base == trim(base_name)
        base == IF normalized_base = <<>> THEN PresetWord ELSE normalized_base
    IN IF normalize_name_key(base) \notin used_names THEN base
       ELSE Candidate(base, FirstFreeIndex(base, used_names, 2))

(* ------------------------------------------------------ presets: import *)
MinOf(ids) == CHOOSE x \in ids : \A y \in ids : x <= y
MaxOf(ids) == CHOOSE x \in ids : \A y \in ids : x >= y
None == [some |-> FALSE]
Some(value) == [some |-> TRUE, value |-> value]
PresetImportSelection(source_id, name) == [source_id |-> source_id, name |-> name]
ImportedPresetSummary(source_id, target_id, name) ==
    [source_id |-> source_id, target_id |-> target_id, name |-> name]

\* A command that has been called and has not run yet. source is the archive's
\* contents (import_presets_from_archive) or the source SaveData directory
\* (import_presets_from_save_data_dir); queue is what the loop has yet to take.
\* bases and start are history: the base name handed to make_unique_name for
\* each imported preset, and the directory and name map the command found.
ImportCall(kind, source, selections) ==
    [pc |-> "called", kind |-> kind, source |-> source, queue |-> selections,
     local_options |-> OptionsData(0, 0, EmptyFs), used_ids |-> {}, used_names |-> {},
     imported |-> <<>>, seen_source_ids |-> {}, bases |-> <<>>,
     start |-> [dir |-> EmptyFs, names |-> EmptyFs, current_preset |-> 0],
     result |-> [ok |-> FALSE, err |-> ""]]
ImportErr(s, err) == [s EXCEPT !.pc = "returned", !.result = [ok |-> FALSE, err |-> err]]

\* Both commands, from the local Options.data to the loop; loaded is what
\* load_options_data returned for the file in the profile's directory.
BeginImport(s, dir, source_version, queue, loaded) ==
    IF ~loaded.ok THEN ImportErr(s, loaded.err)
    ELSE LET existing == IF loaded.some THEN loaded.value
                         ELSE OptionsData(source_version, 0, EmptyFs)
             local_options == IF existing.version = 0
                              THEN [existing EXCEPT !.version = source_version]
                              ELSE existing
             names == local_options.preset_names
         IN [s EXCEPT !.pc = "loop",
                      !.queue = queue,
                      !.local_options = local_options,
                      !.used_ids = collect_existing_preset_ids(dir)
                                       \cup {id \in DOMAIN names : id >= 0},
                      !.used_names = {normalize_name_key(names[id]) : id \in DOMAIN names},
                      !.start = [dir |-> dir, names |-> names,
                                 current_preset |-> local_options.current_preset]]

\* The tail of one loop iteration, the same in both commands: the name, the
\* id, the preset file, the name map and the summary.
ImportOne(s, dir, source_id, base_name, source_data) ==
    LET final_name == make_unique_name(base_name, s.used_names)
        last == IF s.used_ids = {} THEN -1 ELSE MaxOf(s.used_ids)
        target_id == last + 1
        target_path == preset_file_name(target_id)
    IN IF last = I32Max THEN [imp |-> ImportErr(s, "no_free_id"), dir |-> dir]
       ELSE IF ~FsWriteOk(dir, target_path) THEN [imp |-> ImportErr(s, "write"), dir |-> dir]
       ELSE [imp |-> [s EXCEPT
                         !.used_names = @ \cup {normalize_name_key(final_name)},
                         !.used_ids = @ \cup {target_id},
                         !.local_options.preset_names = Merge(@, target_id :> final_name),
                         !.imported = Append(@, ImportedPresetSummary(source_id, target_id,
                                                                      final_name)),
                         !.bases = Append(@, base_name)],
             dir |-> FsWrite(dir, target_path, source_data)]

import_presets_from_archive ==
    /\ imp.pc = "called" /\ imp.kind = "archive"
    /\ imp' = IF imp.queue = <<>> THEN ImportErr(imp, "no_selection")
              ELSE LET version == imp.source.options.version
                   IN BeginImport(imp, saveData, IF version = 0 THEN 1 ELSE version,
                                  imp.queue, load_options_data(saveData))
    /\ UNCHANGED <<saveData, notPreset>>

\* One iteration of the loop over the selections.
import_selection ==
    /\ imp.pc = "loop" /\ imp.kind = "archive" /\ imp.queue # <<>>
    /\ LET selection == Head(imp.queue)
           source_id == selection.source_id
           contents == imp.source
           taken == [imp EXCEPT !.queue = Tail(@), !.seen_source_ids = @ \cup {source_id}]
       IN IF source_id < 0
          THEN imp' = ImportErr(imp, "invalid_source_id") /\ UNCHANGED saveData
          ELSE IF source_id \in imp.seen_source_ids
          THEN imp' = [imp EXCEPT !.queue = Tail(@)] /\ UNCHANGED saveData
          ELSE IF source_id \notin DOMAIN contents.options.preset_names
          THEN imp' = ImportErr(taken, "not_in_options") /\ UNCHANGED saveData
          ELSE IF source_id \notin DOMAIN contents.preset_files
          THEN imp' = ImportErr(taken, "no_data_file") /\ UNCHANGED saveData
          ELSE LET source_name == contents.options.preset_names[source_id]
                   fallback_name == IF trim(source_name) = <<>>
                                    THEN make_default_preset_name(source_id)
                                    ELSE trim(source_name)
                   requested_name == IF selection.name.some THEN selection.name.value ELSE <<>>
                   base_name == IF trim(requested_name) = <<>> THEN fallback_name
                                ELSE trim(requested_name)
                   one == ImportOne(taken, saveData, source_id, base_name,
                                    contents.preset_files[source_id])
               IN imp' = one.imp /\ saveData' = one.dir
    /\ UNCHANGED notPreset

\* source_entries: the source's named presets that have a data file, by id.
RECURSIVE SourceEntries(_, _, _)
SourceEntries(source_dir, preset_names, ids) ==
    IF ids = {} THEN <<>>
    ELSE LET source_id == MinOf(ids)
             source_name == preset_names[source_id]
             rest == SourceEntries(source_dir, preset_names, ids \ {source_id})
         IN IF source_id < 0 \/ ~is_file(source_dir, preset_file_name(source_id)) THEN rest
            ELSE <<[source_id |-> source_id,
                    name |-> IF trim(source_name) = <<>>
                             THEN make_default_preset_name(source_id)
                             ELSE trim(source_name),
                    data |-> source_dir[preset_file_name(source_id)].data]>> \o rest

\* import_presets_from_save_data_dir up to the loop; source_options and loaded
\* are what load_options_data returned for the source's and the profile's file.
BeginImportFromDir(s, dir, source_options, loaded) ==
    IF ~source_options.ok THEN ImportErr(s, source_options.err)
    ELSE IF ~source_options.some THEN ImportErr(s, "source_options_missing")
    ELSE LET version == source_options.value.version
             names == source_options.value.preset_names
             source_entries == SourceEntries(s.source, names, DOMAIN names)
         IN IF source_entries = <<>> THEN ImportErr(s, "nothing_importable")
            ELSE BeginImport(s, dir, IF version = 0 THEN 1 ELSE version, source_entries,
                             loaded)
import_presets_from_save_data_dir ==
    /\ imp.pc = "called" /\ imp.kind = "save_data_dir"
    /\ imp' = BeginImportFromDir(imp, saveData, load_options_data(imp.source),
                                 load_options_data(saveData))
    /\ UNCHANGED <<saveData, notPreset>>

\* One iteration of the loop over source_entries.
import_source_entry ==
    /\ imp.pc = "loop" /\ imp.kind = "save_data_dir" /\ imp.queue # <<>>
    /\ LET entry == Head(imp.queue)
           one == ImportOne([imp EXCEPT !.queue = Tail(@)], saveData, entry.source_id,
                            entry.name, entry.data)
       IN imp' = one.imp /\ saveData' = one.dir
    /\ UNCHANGED notPreset

\* Variant: the current preset is left as it was found.
keep_current_preset(local_options, imported) == local_options
\* The current preset after the loop: the name map now holds the imported
\* presets too.
heal_current_preset(local_options, imported) ==
    IF local_options.current_preset \in DOMAIN local_options.preset_names
    THEN local_options
    ELSE [local_options EXCEPT !.current_preset = imported[1].target_id]
\* Both commands after the loop: the current preset, and the new Options.data.
import_presets_finish ==
    /\ imp.pc = "loop" /\ imp.queue = <<>>
    /\ IF imp.imported = <<>>
       THEN imp' = ImportErr(imp, "nothing_imported") /\ UNCHANGED saveData
       ELSE LET local_options == heal_current_preset(imp.local_options, imp.imported)
            IN IF ~FsWriteOk(saveData, OPTIONS_FILE_NAME)
               THEN imp' = ImportErr([imp EXCEPT !.local_options = local_options], "write")
                    /\ UNCHANGED saveData
               ELSE \E seed \in ChecksumSeeds :
                      /\ saveData' = FsWrite(saveData, OPTIONS_FILE_NAME,
                                             build_options_data(local_options, seed))
                      /\ imp' = [imp EXCEPT !.pc = "returned",
                                            !.local_options = local_options,
                                            !.result = [ok |-> TRUE, err |-> ""]]
    /\ UNCHANGED notPreset

(* ------------------------------------------------ the preset import, alone *)
\* "Alpha", "alpha (2)", "B", "x"
Alpha == <<65, 108, 112, 104, 97>>
AlphaTwoLower == <<97, 108, 112, 104, 97, 32, 40, 50, 41>>
MaxBatch == 3
OptionsFile(current_preset, preset_names) ==
    RegularFile(build_options_data(OptionsData(1, current_preset, preset_names), 3))
PresetFile(numeric) == PRESET_FILE_PREFIX \o numeric \o PRESET_FILE_SUFFIX
\* The profile's SaveData directory before the import: empty; one preset;
\* a taken "alpha (2)" and a data file no name refers to, far above the named
\* ones; ids written with a sign or a leading zero, names that are no ids, a
\* dangling current preset; a directory where the next preset file would go;
\* the largest id on disk; a data file no name refers to, next to the named
\* one; an Options.data whose only name has a negative id; a current preset
\* that is no key yet and is the id the second import gets; an Options.data
\* that does not parse; one that is a directory.
SaveDataDirs == {
    EmptyFs,
    (OPTIONS_FILE_NAME :> OptionsFile(0, 0 :> Alpha))
        @@ (preset_file_name(0) :> RegularFile(<<1>>)),
    (OPTIONS_FILE_NAME :> OptionsFile(1, (0 :> Alpha) @@ (1 :> AlphaTwoLower)))
        @@ (preset_file_name(0) :> RegularFile(<<1>>))
        @@ (preset_file_name(1) :> RegularFile(<<2>>))
        @@ (preset_file_name(7) :> RegularFile(<<3>>)),
    (OPTIONS_FILE_NAME :> OptionsFile(9, 5 :> <<66>>))
        @@ (PresetFile(<<43, 57>>) :> RegularFile(<<4>>))
        @@ (PresetFile(<<48, 51>>) :> RegularFile(<<5>>))
        @@ (PresetFile(<<120>>) :> RegularFile(<<6>>))
        @@ (PresetFile(<<45, 49>>) :> RegularFile(<<7>>))
        @@ (PresetFile(<<>>) :> RegularFile(<<8>>))
        @@ (preset_file_name(12) :> SubDirectory),
    (OPTIONS_FILE_NAME :> OptionsFile(0, 0 :> Alpha))
        @@ (preset_file_name(0) :> RegularFile(<<1>>))
        @@ (preset_file_name(1) :> SubDirectory),
    (preset_file_name(I32Max - 1) :> RegularFile(<<1>>))
        @@ (PresetFile(<<50, 49, 52, 55, 52, 56, 51, 54, 52, 56>>) :> RegularFile(<<2>>)),
    (OPTIONS_FILE_NAME :> OptionsFile(0, 0 :> <<66>>))
        @@ (preset_file_name(0) :> RegularFile(<<1>>))
        @@ (preset_file_name(1) :> RegularFile(<<2>>)),
    OPTIONS_FILE_NAME :> OptionsFile(0, (-3 :> Alpha)),
    (OPTIONS_FILE_NAME :> OptionsFile(4, 2 :> <<66>>))
        @@ (preset_file_name(2) :> RegularFile(<<1>>)),
    OPTIONS_FILE_NAME :> RegularFile(<<1, 2, 3>>),
    OPTIONS_FILE_NAME :> SubDirectory }

\* The source: four names, two of them "Alpha", one blank, one "ALPHA" in
\* spaces; preset 3 has no data file.
SourcePresetNames ==
    (0 :> Alpha) @@ (1 :> Alpha) @@ (2 :> <<32, 32>>) @@ (3 :> <<32, 65, 76, 80, 72, 65, 32>>)
SourcePresetFiles == (0 :> <<10>>) @@ (1 :> <<11>>) @@ (2 :> <<12>>)
ArchiveContents ==
    {[options |-> OptionsData(v, 0, SourcePresetNames), preset_files |-> SourcePresetFiles] : v \in {0, 2}}
Selections ==
    {PresetImportSelection(id, None) : id \in {-1, 0, 1, 2, 3, 4}}
        \cup {PresetImportSelection(0, Some(<<97, 108, 112, 104, 97>>)),
              PresetImportSelection(1, Some(<<32>>)),
              PresetImportSelection(2, Some(<<32, 66, 32>>))}
SelectionLists == UNION {[1..n -> Selections] : n \in 0..MaxBatch}
SourceDir(preset_names, ids) ==
    (OPTIONS_FILE_NAME :> OptionsFile(0, preset_names))
        @@ [name \in {preset_file_name(id) : id \in ids} |->
               RegularFile(<<10 + parse_preset_id_from_local_file_name(name).value>>)]
\* The source SaveData directory: as the archive; no data file at all; no
\* Options.data; an Options.data that does not parse.
SourceDirs == {
    SourceDir(SourcePresetNames, DOMAIN SourcePresetFiles),
    SourceDir(SourcePresetNames, {}),
    preset_file_name(0) :> RegularFile(<<10>>),
    OPTIONS_FILE_NAME :> RegularFile(<<1, 2, 3>>) }

PresetImportInit ==
    /\ saveData \in SaveDataDirs
    /\ imp \in {ImportCall("archive", contents, selections) :
                   contents \in ArchiveContents, selections \in SelectionLists}
               \cup {ImportCall("save_data_dir", source, <<>>) : source \in SourceDirs}
PresetImportNext ==
    \/ import_presets_from_archive
    \/ import_selection
    \/ import_presets_from_save_data_dir
    \/ import_source_entry
    \/ import_presets_finish
PresetImportSpecInit == PresetImportInit /\ MigIdle /\ TxIdle /\ CalcIdle /\ ZipIdle /\ GameIdle
SpecPresetImport == PresetImportSpecInit /\ [][PresetImportNext]_vars

(* ------------------------------------------------ presets: the listing *)
PresetEntrySummary(id, name, has_data_file) ==
    [id |-> id, name |-> name, has_data_file |-> has_data_file]
\* The loop over options.preset_names, a BTreeMap: by ascending id.
RECURSIVE ListEntries(_, _, _)
ListEntries(save_data_dir, preset_names, ids) ==
    IF ids = {} THEN <<>>
    ELSE LET id == MinOf(ids)
         IN <<PresetEntrySummary(
                  id,
                  IF trim(preset_names[id]) = <<>> THEN make_default_preset_name(id)
                  ELSE preset_names[id],
                  is_file(save_data_dir, preset_file_name(id)))>>
                \o ListEntries(save_data_dir, preset_names, ids \ {id})
\* The listing once load_options_data has returned.
ListLoaded(save_data_dir, loaded) ==
    IF ~loaded.ok THEN loaded
    ELSE IF ~loaded.some THEN [ok |-> TRUE, presets |-> <<>>]
    ELSE [ok |-> TRUE,
          presets |-> ListEntries(save_data_dir, loaded.value.preset_names,
                                  DOMAIN loaded.value.preset_names)]
\* Variant: a preset without a data file is left out of the list.
list_presets_with_data_files(save_data_dir) ==
    LET listed == ListLoaded(save_data_dir, load_options_data(save_data_dir))
    IN IF listed.ok
       THEN [listed EXCEPT !.presets = SelectSeq(@, LAMBDA e : e.has_data_file)]
       ELSE listed
list_presets_from_save_data_dir(save_data_dir) ==
    ListLoaded(save_data_dir, load_options_data(save_data_dir))

(* ------------------------------------------------ the preset listing, alone *)
\* The name maps and the sets of preset files a listed directory is made of;
\* the ids of the files cover named and unnamed presets.
ListedNameMaps == {
    EmptyFs,
    0 :> Alpha,
    (0 :> Alpha) @@ (1 :> <<>>),
    (1 :> <<32, 32>>) @@ (3 :> <<66>>) @@ (12 :> Alpha),
    (-1 :> Alpha) @@ (3 :> <<66>>) }
ListedFileIds == {0, 1, 3, 12}
PresetFiles(ids) == [name \in {preset_file_name(id) : id \in ids} |-> RegularFile(<<7>>)]
\* Directories with an Options.data, with every set of data files; the same
\* with a directory or a file written with a leading zero where the data file
\* of preset 3 would be; without an Options.data; with one that does not
\* parse; with a directory of that name.
ListedDirs ==
    {(OPTIONS_FILE_NAME :> OptionsFile(0, names)) @@ PresetFiles(ids) :
        names \in ListedNameMaps, ids \in SUBSET ListedFileIds}
    \cup {(OPTIONS_FILE_NAME :> OptionsFile(0, names)) @@ odd :
             names \in ListedNameMaps,
             odd \in {preset_file_name(3) :> SubDirectory,
                      PresetFile(<<48, 51>>) :> RegularFile(<<7>>)}}
    \cup {PresetFiles(ids) : ids \in SUBSET ListedFileIds}
    \cup {(OPTIONS_FILE_NAME :> RegularFile(<<1, 2, 3>>)) @@ PresetFiles({0}),
          (OPTIONS_FILE_NAME :> SubDirectory) @@ PresetFiles({0})}
PresetListInit ==
    /\ call \in [fn : {"list_presets_from_save_data_dir"}, save_data_dir : ListedDirs]
    /\ ret = NoRet
list_presets ==
    /\ call.fn = "list_presets_from_save_data_dir" /\ ~ret.done
    /\ ret' = Returned(list_presets_from_save_data_dir(call.save_data_dir))
    /\ UNCHANGED <<call, notCalc>>
PresetListSpecInit == PresetListInit /\ MigIdle /\ TxIdle /\ PresetIdle /\ ZipIdle /\ GameIdle
SpecPresetList == PresetListSpecInit /\ [][list_presets]_vars

(* ------------------------------------------------- the derived key, alone *)
\* key.fill(0)
fill_zero(key) == [i \in 1..Len(key) |-> 0]
\* The key buffer of a call when the call returns: not derived, or its bytes.
NoKey == [derived |-> FALSE, buffer |-> <<>>]
KeyBuffer(bytes) == [derived |-> TRUE, buffer |-> bytes]

\* build_snrdata_container with its key buffer. cipher.encrypt is the one call
\* between the derivation and key.fill(0); encrypt_fails says that it returned Err.
build_snrdata_container_key(zip_bytes, encryption_enabled, pwopt, salt, nonce, encrypt_fails) ==
    IF ~encryption_enabled \/ ~NonEmptyPassword(pwopt)
    THEN [result |-> build_snrdata_container(zip_bytes, encryption_enabled, pwopt, salt, nonce),
          key |-> NoKey]
    ELSE LET key == derive_encryption_key(PasswordOf(pwopt), salt)
         IN IF encrypt_fails
            THEN [result |-> ContainerErr("encrypt_failed"), key |-> KeyBuffer(key)]
            ELSE [result |-> build_snrdata_container(zip_bytes, encryption_enabled, pwopt,
                                                     salt, nonce),
                  key |-> KeyBuffer(fill_zero(key))]

\* extract_zip_bytes_from_archive_bytes with its key buffer: a key is derived on
\* the paths that reach cipher.decrypt, and key.fill(0) follows the `?` on its result.
extract_zip_bytes_key(archive_bytes, pwopt) ==
    LET result == extract_zip_bytes_from_archive_bytes(archive_bytes, pwopt)
        hdr == Len(ActiveMagic(archive_bytes)) + 2
        salt == SubSeq(archive_bytes, hdr + 1, hdr + ENCRYPTION_SALT_LEN)
        key == derive_encryption_key(PasswordOf(pwopt), salt)
    IN IF result.ok /\ result.encrypted
       THEN [result |-> result, key |-> KeyBuffer(fill_zero(key))]
       ELSE IF result.err = "decrypt_failed"
       THEN [result |-> result, key |-> KeyBuffer(key)]
       ELSE [result |-> result, key |-> NoKey]

KeyInit ==
    /\ call \in [fn : {"extract_zip_bytes_from_archive_bytes"},
                 archive_bytes : ContainerInputs, password : PasswordOptions]
            \cup [fn : {"build_snrdata_container"}, zip_bytes : ContainerPayloads,
                  encryption_enabled : BOOLEAN, password : PasswordOptions,
                  encrypt_fails : BOOLEAN]
    /\ ret = NoRet
build_container ==
    /\ call.fn = "build_snrdata_container" /\ ~ret.done
    /\ \E seed \in RandomSeeds :
         ret' = Returned(build_snrdata_container_key(
                             call.zip_bytes, call.encryption_enabled, call.password,
                             RandomFill(ENCRYPTION_SALT_LEN, seed),
                             RandomFill(ENCRYPTION_NONCE_LEN, seed), call.encrypt_fails))
    /\ UNCHANGED <<call, notCalc>>
read_container_key ==
    /\ call.fn = "extract_zip_bytes_from_archive_bytes" /\ ~ret.done
    /\ ret' = Returned(extract_zip_bytes_key(call.archive_bytes, call.password))
    /\ UNCHANGED <<call, notCalc>>
KeyNext ==
    \/ build_container
    \/ read_container_key
KeySpecInit == KeyInit /\ MigIdle /\ TxIdle /\ PresetIdle /\ ZipIdle /\ GameIdle
SpecKey == KeySpecInit /\ [][KeyNext]_vars

(* --------------------------------------------- extract_zip: the progress *)
\* Largest number of entries of an extracted archive.
MaxEntries == 250
\* archive.len() of the archives extracted: below, at and above the sizes where
\* progress_step grows beyond 1.
Totals == {0, 1, 2, 3, 100, 199, 200, MaxEntries}

progress_step(total) == MaxOf({total \div 100, 1})
saturating_sub(a, b) == IF a >= b THEN a - b ELSE 0
\* Variant: no report is forced for the last entry.
should_emit_when_due(current, total, last_reported, step, interval_elapsed) ==
    \/ saturating_sub(current, last_reported) >= step
    \/ interval_elapsed
\* interval_elapsed: last_progress_emitted_at.elapsed() >= EXTRACT_PROGRESS_MIN_INTERVAL
should_emit_progress(current, total, last_reported, step, interval_elapsed) ==
    \/ current = total
    \/ saturating_sub(current, last_reported) >= step
    \/ interval_elapsed

\* on_progress(current, total): the callback's arguments are recorded as the first
\* and the last report made, with the number of reports.
on_progress(e, current, total) ==
    [e EXCEPT !.first = IF e.first.some THEN @ ELSE Some([current |-> current, total |-> total]),
              !.last = Some([current |-> current, total |-> total]),
              !.reports = IF @ < 2 THEN @ + 1 ELSE @]

ExtractInit == extract = NoExtract
\* extract_zip up to the loop: the archive is opened, the destination created, the
\* locals initialised and (0, total) reported; a failure before that returns Err.
extract_zip_begin ==
    /\ extract.pc = "none"
    /\ \/ extract' = [pc |-> "err", total |-> 0, i |-> 0, last_reported |-> 0,
                      interval_elapsed |-> FALSE, first |-> None, last |-> None,
                      reports |-> 0, skipped |-> 0]
       \/ \E total \in Totals :
            extract' = on_progress([pc |-> "loop", total |-> total, i |-> 0,
                                    last_reported |-> 0, interval_elapsed |-> FALSE,
                                    first |-> None, last |-> None, reports |-> 0,
                                    skipped |-> 0],
                                   0, total)
    /\ UNCHANGED notZip
\* The clock passes EXTRACT_PROGRESS_MIN_INTERVAL since last_progress_emitted_at.
interval_passes ==
    /\ extract.pc = "loop" /\ extract.i < extract.total
    /\ ~extract.interval_elapsed
    /\ extract' = [extract EXCEPT !.interval_elapsed = TRUE]
    /\ UNCHANGED notZip
\* One iteration of the loop: entry i is written, then reported or skipped.
extract_entry ==
    /\ extract.pc = "loop" /\ extract.i < extract.total
    /\ LET current == extract.i + 1
           done == [extract EXCEPT !.i = current]
       IN IF should_emit_progress(current, extract.total, extract.last_reported,
                                  progress_step(extract.total), extract.interval_elapsed)
          THEN extract' = [on_progress(done, current, extract.total)
                              EXCEPT !.last_reported = current,
                                     !.interval_elapsed = FALSE]
          ELSE extract' = [done EXCEPT !.skipped = IF @ < 2 THEN @ + 1 ELSE @]
    /\ UNCHANGED notZip
\* by_index, enclosed_name or a write fails for entry i: Err is returned at once.
extract_entry_fails ==
    /\ extract.pc = "loop" /\ extract.i < extract.total
    /\ extract' = [extract EXCEPT !.pc = "err"]
    /\ UNCHANGED notZip
\* The loop is over: Ok(()).
extract_zip_returns ==
    /\ extract.pc = "loop" /\ extract.i = extract.total
    /\ extract' = [extract EXCEPT !.pc = "ok"]
    /\ UNCHANGED notZip
ExtractNext ==
    \/ extract_zip_begin
    \/ interval_passes
    \/ extract_entry
    \/ extract_entry_fails
    \/ extract_zip_returns
ExtractSpecInit == ExtractInit /\ MigIdle /\ TxIdle /\ CalcIdle /\ PresetIdle /\ GameIdle
SpecExtract == ExtractSpecInit /\ [][ExtractNext]_vars

(* ------------------------------------------- the tracked game process *)
\* Number of launch_process calls; the child spawned by call l has PID l.
MaxLaunches == 2
\* Failures of try_wait, command.spawn and the PID file injected in one run.
MaxGameFaults == 1
Launches == 1..MaxLaunches
LockFree == <<>>
HeldByLaunch(l) == <<"launch", l>>
HeldByQuery == <<"query">>
IdleLaunch == [pc |-> "idle", result |-> "none", spawned |-> FALSE, orphaned |-> FALSE]

\* child.try_wait(): Ok(None) while the process runs, Ok(Some(status)) once it
\* has exited, Err when the failure is injected.
try_wait(child, failed) ==
    IF failed THEN "err" ELSE IF child \in os THEN "running" ELSE "exited"
GameInjectFault == gameFaults > 0 /\ gameFaults' = gameFaults - 1
\* The outcomes of try_wait on the tracked child, with the budget each one uses.
WaitOutcomes(child) ==
    {[wait |-> try_wait(child, FALSE), fault |-> 0]}
        \cup (IF child # 0 /\ gameFaults > 0
              THEN {[wait |-> try_wait(child, TRUE), fault |-> 1]} ELSE {})

\* Variant: the tracked child is never found running.
tracked_child_never_running(tracked, wait) == FALSE
\* guard.as_mut().is_some_and(|child| child.try_wait().ok().flatten().is_none())
tracked_child_running(tracked, wait) == tracked # 0 /\ wait \in {"running", "err"}

\* fs::write(&path, pid.to_string()), a failure is only logged.
persist_running_game_pid(pid) ==
    \/ pidFile' = pid /\ UNCHANGED gameFaults
    \/ UNCHANGED pidFile /\ GameInjectFault
\* fs::remove_file(path), a failure is only logged.
clear_persisted_running_game_pid ==
    \/ pidFile' = 0 /\ UNCHANGED gameFaults
    \/ pidFile # 0 /\ UNCHANGED pidFile /\ GameInjectFault

GameInit ==
    /\ GAME_PROCESS = 0 /\ gameLock = LockFree /\ os = {} /\ pidFile = 0
    /\ lastEvent = "none"
    /\ launches = [l \in Launches |-> IdleLaunch]
    /\ monitors = [l \in Launches |-> "none"]
    /\ query = [pc |-> "idle"]
    /\ gameFaults = MaxGameFaults

\* launch_process: the lock is taken and the tracked child inspected.
launch_process(l) ==
    /\ launches[l].pc = "idle" /\ gameLock = LockFree
    /\ \E outcome \in WaitOutcomes(GAME_PROCESS) :
         /\ gameFaults' = gameFaults - outcome.fault
         /\ IF tracked_child_running(GAME_PROCESS, outcome.wait)
            THEN /\ launches' = [launches EXCEPT ![l].pc = "returned",
                                                 ![l].result = "already_running"]
                 /\ UNCHANGED gameLock
            ELSE /\ launches' = [launches EXCEPT ![l].pc = "spawn"]
                 /\ gameLock' = HeldByLaunch(l)
    /\ UNCHANGED <<GAME_PROCESS, os, pidFile, lastEvent, monitors, query>>
    /\ UNCHANGED notGame
\* command.spawn().map_err(map_launch_spawn_error)?
launch_spawn(l) ==
    /\ launches[l].pc = "spawn"
    /\ os' = os \cup {l}
    /\ launches' = [launches EXCEPT ![l].pc = "persist", ![l].spawned = TRUE]
    /\ UNCHANGED <<GAME_PROCESS, gameLock, pidFile, lastEvent, monitors, query, gameFaults>>
    /\ UNCHANGED notGame
launch_spawn_fails(l) ==
    /\ launches[l].pc = "spawn"
    /\ GameInjectFault
    /\ launches' = [launches EXCEPT ![l].pc = "returned", ![l].result = "spawn_failed"]
    /\ gameLock' = LockFree
    /\ UNCHANGED <<GAME_PROCESS, os, pidFile, lastEvent, monitors, query>>
    /\ UNCHANGED notGame
\* persist_running_game_pid(&app, child.id());
launch_persist(l) ==
    /\ launches[l].pc = "persist"
    /\ persist_running_game_pid(l)
    /\ launches' = [launches EXCEPT ![l].pc = "track"]
    /\ UNCHANGED <<GAME_PROCESS, gameLock, os, lastEvent, monitors, query>>
    /\ UNCHANGED notGame
\* *guard = Some(child); the guard is dropped at the end of the block.
launch_track(l) ==
    /\ launches[l].pc = "track"
    /\ GAME_PROCESS' = l
    /\ gameLock' = LockFree
    /\ launches' = [launches EXCEPT ![l].pc = "monitor"]
    /\ UNCHANGED <<os, pidFile, lastEvent, monitors, query, gameFaults>>
    /\ UNCHANGED notGame
\* monitor_game_process(app); Ok(())
launch_monitor(l) ==
    /\ launches[l].pc = "monitor"
    /\ monitors' = [monitors EXCEPT ![l] = "emit_running"]
    /\ launches' = [launches EXCEPT ![l].pc = "returned", ![l].result = "ok"]
    /\ UNCHANGED <<GAME_PROCESS, gameLock, os, pidFile, lastEvent, query, gameFaults>>
    /\ UNCHANGED notGame

\* The monitor thread: app.emit("game-state-changed", running: true).
monitor_emit_running(m) ==
    /\ monitors[m] = "emit_running"
    /\ lastEvent' = "running"
    /\ monitors' = [monitors EXCEPT ![m] = "sleep"]
    /\ UNCHANGED <<GAME_PROCESS, gameLock, os, pidFile, launches, query, gameFaults>>
    /\ UNCHANGED notGame
\* One round of the loop after the sleep: the lock is taken, the tracked child
\* inspected, and the lock released; the loop is left when no child is tracked,
\* the tracked one has exited or try_wait failed.
monitor_poll(m) ==
    /\ monitors[m] = "sleep" /\ gameLock = LockFree
    /\ \E outcome \in WaitOutcomes(GAME_PROCESS) :
         /\ gameFaults' = gameFaults - outcome.fault
         /\ IF GAME_PROCESS # 0 /\ outcome.wait = "running"
            THEN UNCHANGED <<GAME_PROCESS, monitors, launches>>
            ELSE /\ GAME_PROCESS' = 0
                 /\ monitors' = [monitors EXCEPT ![m] = "clear_pid"]
                 /\ launches' = IF GAME_PROCESS # 0 /\ GAME_PROCESS \in os
                                THEN [launches EXCEPT ![GAME_PROCESS].orphaned = TRUE]
                                ELSE launches
    /\ UNCHANGED <<gameLock, os, pidFile, lastEvent, query>>
    /\ UNCHANGED notGame
\* clear_persisted_running_game_pid(&app);
monitor_clear_pid(m) ==
    /\ monitors[m] = "clear_pid"
    /\ clear_persisted_running_game_pid
    /\ monitors' = [monitors EXCEPT ![m] = "emit_stopped"]
    /\ UNCHANGED <<GAME_PROCESS, gameLock, os, lastEvent, launches, query>>
    /\ UNCHANGED notGame
\* app.emit("game-state-changed", running: false); the thread ends.
monitor_emit_stopped(m) ==
    /\ monitors[m] = "emit_stopped"
    /\ lastEvent' = "stopped"
    /\ monitors' = [monitors EXCEPT ![m] = "done"]
    /\ UNCHANGED <<GAME_PROCESS, gameLock, os, pidFile, launches, query, gameFaults>>
    /\ UNCHANGED notGame

\* The game process exits.
game_exits(child) ==
    /\ child \in os
    /\ os' = os \ {child}
    /\ UNCHANGED <<GAME_PROCESS, gameLock, pidFile, lastEvent, launches, monitors, query,
                   gameFaults>>
    /\ UNCHANGED notGame

\* is_game_running: the lock is taken and the tracked child inspected; with no
\* tracked child the guard is dropped.
is_game_running ==
    /\ query.pc \in {"idle", "returned"} /\ gameLock = LockFree
    /\ \E outcome \in WaitOutcomes(GAME_PROCESS) :
         /\ gameFaults' = gameFaults - outcome.fault
         /\ IF GAME_PROCESS = 0
            THEN /\ query' = [pc |-> "load"]
                 /\ UNCHANGED <<GAME_PROCESS, gameLock>>
            ELSE IF outcome.wait = "exited"
            THEN /\ GAME_PROCESS' = 0
                 /\ query' = [pc |-> "clear"]
                 /\ gameLock' = HeldByQuery
            ELSE IF outcome.wait = "running"
            THEN /\ query' = [pc |-> "persist"]
                 /\ gameLock' = HeldByQuery
                 /\ UNCHANGED GAME_PROCESS
            ELSE /\ query' = [pc |-> "returned", result |-> "err"]
                 /\ UNCHANGED <<GAME_PROCESS, gameLock>>
    /\ UNCHANGED <<os, pidFile, lastEvent, launches, monitors>>
    /\ UNCHANGED notGame
\* Ok(Some(_)): clear_persisted_running_game_pid(&app); Ok(false)
query_clear ==
    /\ query.pc = "clear"
    /\ clear_persisted_running_game_pid
    /\ query' = [pc |-> "returned", result |-> "false"]
    /\ gameLock' = LockFree
    /\ UNCHANGED <<GAME_PROCESS, os, lastEvent, launches, monitors>>
    /\ UNCHANGED notGame
\* Ok(None): persist_running_game_pid(&app, process.id()); Ok(true)
query_persist ==
    /\ query.pc = "persist"
    /\ persist_running_game_pid(GAME_PROCESS)
    /\ query' = [pc |-> "returned", result |-> "true"]
    /\ gameLock' = LockFree
    /\ UNCHANGED <<GAME_PROCESS, os, lastEvent, launches, monitors>>
    /\ UNCHANGED notGame
\* load_persisted_running_game_pid(&app)?
query_load ==
    /\ query.pc = "load"
    /\ query' = IF pidFile = 0 THEN [pc |-> "returned", result |-> "false"]
                 ELSE [pc |-> "check", pid |-> pidFile]
    /\ UNCHANGED <<GAME_PROCESS, gameLock, os, pidFile, lastEvent, launches, monitors,
                   gameFaults>>
    /\ UNCHANGED notGame
\* is_pid_running(pid): the task list on Windows, false on the other builds.
is_pid_running(pid, windows) == windows /\ pid \in os
query_check(windows) ==
    /\ query.pc = "check"
    /\ query' = IF is_pid_running(query.pid, windows)
                 THEN [pc |-> "returned", result |-> "true"]
                 ELSE [pc |-> "clear_stale"]
    /\ UNCHANGED <<GAME_PROCESS, gameLock, os, pidFile, lastEvent, launches, monitors,
                   gameFaults>>
    /\ UNCHANGED notGame
\* clear_persisted_running_game_pid(&app); Ok(false)
query_clear_stale ==
    /\ query.pc = "clear_stale"
    /\ clear_persisted_running_game_pid
    /\ query' = [pc |-> "returned", result |-> "false"]
    /\ UNCHANGED <<GAME_PROCESS, gameLock, os, lastEvent, launches, monitors>>
    /\ UNCHANGED notGame

GameNext ==
    \/ \E l \in Launches : launch_process(l)
    \/ \E l \in Launches : launch_spawn(l)
    \/ \E l \in Launches : launch_spawn_fails(l)
    \/ \E l \in Launches : launch_persist(l)
    \/ \E l \in Launches : launch_track(l)
    \/ \E l \in Launches : launch_monitor(l)
    \/ \E m \in Launches : monitor_emit_running(m)
    \/ \E m \in Launches : monitor_poll(m)
    \/ \E m \in Launches : monitor_clear_pid(m)
    \/ \E m \in Launches : monitor_emit_stopped(m)
    \/ \E child \in Launches : game_exits(child)
    \/ is_game_running
    \/ query_clear
    \/ query_persist
    \/ query_load
    \/ \E windows \in BOOLEAN : query_check(windows)
    \/ query_clear_stale
GameSpecInit == GameInit /\ MigIdle /\ TxIdle /\ CalcIdle /\ PresetIdle /\ ZipIdle
SpecGame == GameSpecInit /\ [][GameNext]_vars

(* ------------------------------------------------ claims on the migration *)
ImportReturned == mpc = "returned" /\ pre.called
ManagedFiles(fs) == Restrict(fs, ManagedIn(fs))
TargetsAsBeforeImport ==
    /\ profileFs = pre.profile
    /\ locallowFs = pre.locallow
    /\ llDir = pre.lldir

\* C1: when import_migration_data fails after population started and reports
\* the plain import error (the rollback returned Ok), the managed profile
\* files and the LocalLow files are those present before the call.
C1_FailedImportRestoresTargets ==
    (ImportReturned /\ mres.status = "err" /\ import_error # "" /\ ~mres.manual)
        => /\ ManagedFiles(profileFs) = ManagedFiles(pre.profile)
           /\ locallowFs = pre.locallow

\* C2: importing an encrypted archive with a wrong, empty or absent password
\* fails with the decryption or the password error, changes no profile file
\* and no LocalLow file, and creates no backup directory.
WrongPasswordImport ==
    /\ ImportReturned
    /\ exported.done /\ exported.encrypted
    /\ pre.pwopt # exported.pwopt
C2_WrongPasswordLeavesTargets ==
    WrongPasswordImport
        => /\ mres.status = "err"
           /\ mres.kind \in {"decrypt_failed", "password_required"}
           /\ TargetsAsBeforeImport
           /\ ~bkExists /\ bkProfile = EmptyFs /\ bkLL = EmptyFs /\ ~bkLLDir
C2_Witness ==
    /\ WrongPasswordImport
    /\ NonEmptyPassword(pre.pwopt)
    /\ mres.kind = "decrypt_failed"
    /\ pre.profile # EmptyFs

\* C3: an entry that enclosed_name refuses, at whatever index, or an empty
\* plan makes the import return an error with no backup directory created
\* and no profile or LocalLow file deleted or written.
PlanRefused ==
    /\ pre.called /\ pre.readable
    /\ pre.unsafe \/ pre.nothing
C3_PlanBeforeDestructiveAction ==
    PlanRefused
        => /\ mpc = "returned"
           /\ mres.status = "err"
           /\ mres.kind \in {"unsafe_entry", "no_entries"}
           /\ TargetsAsBeforeImport
           /\ ~bkExists /\ bkProfile = EmptyFs /\ bkLL = EmptyFs /\ ~bkLLDir
C3_Witness ==
    /\ PlanRefused
    /\ mres.kind = "unsafe_entry"
    /\ pre.first_ok
    /\ ManagedIn(pre.profile) # {} /\ pre.locallow # EmptyFs

\* C4: importing what export_migration_data wrote, with the password it was
\* written with, succeeds and leaves exactly the exported managed profile
\* files and LocalLow files, whatever the targets held before.
RoundTripImport ==
    /\ ImportReturned
    /\ exported.done
    /\ exported.encrypted => pre.pwopt = exported.pwopt
C4_RoundTrip ==
    RoundTripImport
        => /\ mres.status = "ok"
           /\ mres.encrypted = exported.encrypted
           /\ ManagedFiles(profileFs) = exported.profile
           /\ locallowFs = exported.locallow
           /\ mres.profile_files = Cardinality(DOMAIN exported.profile)
           /\ mres.locallow_files = Cardinality(DOMAIN exported.locallow)
C4_Witness ==
    /\ RoundTripImport
    /\ exported.encrypted
    /\ mres.status = "ok"
    /\ exported.profile # EmptyFs
    /\ ManagedIn(pre.profile) \ DOMAIN exported.profile # {}
    /\ pre.locallow # EmptyFs /\ exported.locallow = EmptyFs

(* ------------------------------------------ claims on the staged changes *)
PromoteReturned(p) == tp[p].pc = "pr_returned"
CommandReturned(p, op) == tp[p].pc = "returned" /\ tp[p].op = op /\ hist[p].started
TargetOf(op) == IF op = "import" THEN profile_save_data_path ELSE ProfilePath

\* C5 as stated: whenever promote_staging_to_profile returns an error and a
\* target existed when it was called, the target path holds the content it
\* had at the call.
C5_PromoteErrorKeepsTarget ==
    \A p \in Procs :
        (PromoteReturned(p) /\ tp[p].perr /\ PathExists(hist[p].commit, tp[p].target))
            => SubtreeAt(tree, tp[p].target) = SubtreeAt(hist[p].commit, tp[p].target)

\* C5 amended: ... the target path holds the content it had at the call
\* unless the rename of the backup back to the target failed; then that
\* content is at the backup path and nothing is at the target path.
C5_PromoteErrorKeepsTargetUnlessRepairFailed ==
    \A p \in Procs :
        (PromoteReturned(p) /\ tp[p].perr /\ PathExists(hist[p].commit, tp[p].target))
            => IF hist[p].repair_failed
               THEN /\ SubtreeAt(tree, tp[p].backup) = SubtreeAt(hist[p].commit, tp[p].target)
                    /\ ~PathExists(tree, tp[p].target)
               ELSE SubtreeAt(tree, tp[p].target) = SubtreeAt(hist[p].commit, tp[p].target)
\* The final rename failed after the target had been moved to the backup, and
\* the repair moved it back.
C5_Witness ==
    \E p \in Procs :
        /\ PromoteReturned(p) /\ tp[p].perr /\ ~hist[p].repair_failed
        /\ hist[p].order = <<"clean_backup", "rename_target">>
        /\ FilesUnder(tree, tp[p].target) # {}
        /\ ~PathExists(tree, tp[p].backup)

\* C6: no error is returned by install_snr_release after the staging
\* directory has been promoted over the profile.
C6_InstallErrorLeavesProfile ==
    \A p \in Procs :
        (CommandReturned(p, "install") /\ tp[p].result = "err") => ~hist[p].promoted

\* C7: promote_staging_to_profile reports the compound error that asks for
\* manual recovery when, and only when, its repair failed.
C7_CompoundErrorIffRepairFailed ==
    \A p \in Procs :
        (PromoteReturned(p) /\ tp[p].perr) => (tp[p].manual <=> hist[p].repair_failed)

\* C8: until promote_staging_to_profile is called, install_snr_release and
\* import_savedata_from_among_us_into_profile leave everything at and below
\* the target path as it was when the command started; so a command that
\* returns an error before that call returns with the target untouched.
C8_TargetUntouchedBeforePromote ==
    \A p \in Procs :
        (hist[p].started /\ tp[p].op \in {"install", "import"} /\ ~hist[p].promote_called)
            => SubtreeAt(tree, TargetOf(tp[p].op)) = SubtreeAt(hist[p].pre, TargetOf(tp[p].op))
\* An install filled the staging directory, failed the required-file check
\* and returned; the profile held files.
C8_Witness ==
    \E p \in Procs :
        /\ CommandReturned(p, "install") /\ tp[p].err = "missing_required"
        /\ FilesUnder(tree, tp[p].staging) # {}
        /\ FilesUnder(hist[p].pre, ProfilePath) # {}
        /\ ~hist[p].promote_called

PreservedBefore(p) == SubtreeAt(hist[p].pre, preserved_save_data_path)
ProfileBefore(p) == SubtreeAt(hist[p].pre, ProfilePath)
ManagedSaveFiles(t) == {r \in DOMAIN Content(t, ProfilePath) : MatchesProfilePattern(r)}
UninstallSucceeded(p) ==
    /\ \A r \in ManagedSaveFiles(hist[p].pre) :
          /\ PathIsFile(tree, preserved_save_data_path \o r)
          /\ tree[preserved_save_data_path \o r] = hist[p].pre[ProfilePath \o r]
    /\ SubtreeAt(tree, ProfilePath) = (<<>> :> DirNode)

C10_PromoteSuccess ==
    \A p \in Procs :
        (PromoteReturned(p) /\ ~tp[p].perr)
            => /\ SubtreeAt(tree, tp[p].target) = SubtreeAt(hist[p].commit, tp[p].staging)
               /\ ~PathExists(tree, tp[p].staging)
               /\ hist[p].order =
                    IF PathExists(hist[p].commit, tp[p].target)
                    THEN <<"clean_backup", "rename_target", "rename_staging",
                           "clean_backup_best_effort">>
                    ELSE <<"clean_backup", "rename_staging", "clean_backup_best_effort">>
\* A commit over an existing target with other content, whose final clean of
\* the backup failed.
C10_Witness ==
    \E p \in Procs :
        /\ PromoteReturned(p) /\ ~tp[p].perr
        /\ PathExists(hist[p].commit, tp[p].target)
        /\ SubtreeAt(hist[p].commit, tp[p].target) # SubtreeAt(hist[p].commit, tp[p].staging)
        /\ PathExists(tree, tp[p].backup)


(* C11: two commands running at once on the same profile use the same staging
   and the same backup path and nothing serialises them.  A commit that fails,
   or an install that reports success over a profile without its required
   files, therefore needs no filesystem fault: it happens exactly because a
   second command was started.  The witness is such an interleaving of two
   installs. *)
OtherProc(p) == CHOOSE q \in Procs : q # p
CommitFailed(p) == tp[p].op = "install" /\ tp[p].perr
BothReturned == \A p \in Procs : tp[p].pc = "returned"
SuccessOverBrokenProfile(p) ==
    /\ BothReturned
    /\ \A q \in Procs : tp[q].op = "install"
    /\ tp[p].result = "ok"
    /\ ~verify_profile_required_files(tree, ProfilePath)
C11_ConcurrentCommandsShareStaging ==
    \A p \in Procs :
        /\ (tp[p].staging # <<>> /\ tp[OtherProc(p)].staging # <<>>)
              => /\ tp[p].staging = tp[OtherProc(p)].staging
                 /\ tp[p].backup = tp[OtherProc(p)].backup
        /\ (CommitFailed(p) \/ SuccessOverBrokenProfile(p)) => hist[OtherProc(p)].started
C11_Witness == \E p \in Procs : SuccessOverBrokenProfile(p)

(* C12: extract_zip changes nothing outside its destination; when an entry is
   absolute or climbs out of the destination the extraction ends with an
   error, and neither that entry nor any entry after it is written: the path
   each of them names holds what it held before, unless an earlier, safe entry
   wrote to the same path. *)
ExtractStep(p) == tp[p].pc = "i_extract" /\ tp'[p].pc # "i_extract"
OutsideOf(t, root) == Without(t, Under(t, root))
EntryTarget(p, i) == Resolve(tp[p].staging \o tp[p].package[i].name)
NotWritten(p, i) ==
    \/ \E j \in 1..(FirstUnsafe(tp[p].package) - 1) : EntryTarget(p, j) = EntryTarget(p, i)
    \/ ~PathExists(tree', EntryTarget(p, i))
    \/ PathExists(tree, EntryTarget(p, i)) /\ tree'[EntryTarget(p, i)] = tree[EntryTarget(p, i)]
C12_ExtractStaysInDestination ==
    [][\A p \in Procs : ExtractStep(p) =>
          /\ OutsideOf(tree', tp[p].staging) = OutsideOf(tree, tp[p].staging)
          /\ FirstUnsafe(tp[p].package) # 0 =>
                /\ tp'[p].result = "err"
                /\ \A i \in FirstUnsafe(tp[p].package)..Len(tp[p].package) : NotWritten(p, i)]_vars
\* An install stopped at an unsafe entry in the middle of its package: the
\* entry before it is in the staging directory, the one after it is not.
C12_Witness ==
    \E p \in Procs :
        /\ CommandReturned(p, "install") /\ tp[p].err = "unsafe_entry"
        /\ FirstUnsafe(tp[p].package) \in 2..(Len(tp[p].package) - 1)
        /\ PathIsFile(tree, EntryTarget(p, 1))
        /\ ~PathExists(tree, EntryTarget(p, Len(tp[p].package)))
        /\ FilesUnder(tree, ProfilePath) # {}

(* C13: a successful import_migration_data writes exactly the file entries
   named profile/<rel> with <rel> matching an inclusion pattern, or
   locallow/<rel> with <rel> at or under the configured LocalLow root; all
   other entries are skipped, nothing is written anywhere else, and the counts
   of the summary add up to the number of entries written. *)
ImportedEntries == ZipArchiveNew(extract_zip_bytes_from_archive_bytes(archive, pre.pwopt).bytes).entries
EntryIsListed(entry) ==
    /\ ~entry.dir /\ Len(entry.name) >= 2
    /\ \/ Head(entry.name) = PROFILE_ARCHIVE_PREFIX /\ MatchesProfilePattern(Tail(entry.name))
       \/ /\ Head(entry.name) = LOCALLOW_ARCHIVE_PREFIX
          /\ is_locallow_entry_allowed(Normalize(Tail(entry.name)))
ListedEntries(prefix) ==
    {i \in 1..Len(ImportedEntries) :
        EntryIsListed(ImportedEntries[i]) /\ Head(ImportedEntries[i].name) = prefix}
C13_ImportWritesExactlyListedEntries ==
    (ImportReturned /\ mres.status = "ok") =>
        /\ ManagedIn(profileFs)
              = {Tail(ImportedEntries[i].name) : i \in ListedEntries(PROFILE_ARCHIVE_PREFIX)}
        /\ DOMAIN locallowFs
              = {Normalize(Tail(ImportedEntries[i].name)) : i \in ListedEntries(LOCALLOW_ARCHIVE_PREFIX)}
        /\ outsideFs = EmptyFs
        /\ Restrict(profileFs, (DOMAIN profileFs) \ ManagedRels)
              = Restrict(pre.profile, (DOMAIN pre.profile) \ ManagedRels)
        /\ mres.profile_files = Cardinality(ListedEntries(PROFILE_ARCHIVE_PREFIX))
        /\ mres.locallow_files = Cardinality(ListedEntries(LOCALLOW_ARCHIVE_PREFIX))

(* C14: an export that finds no managed profile file and no file under the
   LocalLow root returns the nothing-to-export error (unless reading the
   settings or the directories failed first); either way it creates neither
   the archive file nor the output directory. *)
ExportReturned == mpc = "returned" /\ ~pre.called
NothingCollected ==
    /\ collect_profile_files(profileFs) = EmptyFs
    /\ (llDir => collect_locallow_files(locallowFs) = EmptyFs)
C14_NothingToExport ==
    (ExportReturned /\ NothingCollected) =>
        /\ mres.status = "err" /\ mres.kind \in {"nothing_to_export", "io"}
        /\ archive = <<>>
        /\ ~exported.out_dir
\* The export returned the nothing-to-export error over a profile that holds
\* only a file no pattern matches.
C14_Witness ==
    /\ ExportReturned /\ NothingCollected
    /\ mres.kind = "nothing_to_export"
    /\ profileFs # EmptyFs

(* C15: extract_zip_bytes_from_archive_bytes returns its input unchanged, as
   not encrypted, exactly when the input starts with neither the configured
   nor the legacy magic.  Behind a magic it succeeds only with version 1 and
   flags 0 or 1, and with flags 0 it returns the bytes that follow the two
   header bytes. *)
ContainerRead == call.fn = "extract_zip_bytes_from_archive_bytes" /\ ret.done
HasMagic(bytes) ==
    StartsWith(bytes, archive_magic_bytes) \/ StartsWith(bytes, LEGACY_ARCHIVE_MAGIC)
MagicLen(bytes) ==
    IF StartsWith(bytes, archive_magic_bytes) THEN Len(archive_magic_bytes)
    ELSE Len(LEGACY_ARCHIVE_MAGIC)
C15_ContainerHeader ==
    ContainerRead =>
        LET bytes == call.archive_bytes
            r == ret.value
            m == MagicLen(bytes)
        IN /\ (r.ok /\ r.bytes = bytes /\ ~r.encrypted) <=> ~HasMagic(bytes)
           /\ (HasMagic(bytes) /\ r.ok) =>
                 /\ Len(bytes) >= m + 2
                 /\ bytes[m + 1] = 1
                 /\ bytes[m + 2] \in {0, 1}
                 /\ bytes[m + 2] = 0 =>
                       (~r.encrypted /\ r.bytes = SubSeq(bytes, m + 3, Len(bytes)))
\* A container with the legacy magic, version 1 and flags 0 was read.
C15_Witness ==
    /\ ContainerRead /\ ret.value.ok
    /\ StartsWith(call.archive_bytes, LEGACY_ARCHIVE_MAGIC)
    /\ ret.value.bytes = <<7, 8, 9>>

(* C16: with a non-empty password, whatever makes the decryption of an
   encrypted container fail (a wrong password, or a changed byte in the stored
   salt, nonce, ciphertext or tag), the result is the one error a wrong
   password gives on the intact container. *)
SealedInput(bytes) ==
    /\ StartsWith(bytes, archive_magic_bytes)
    /\ Len(bytes) > HeaderLen + ENCRYPTION_SALT_LEN + ENCRYPTION_NONCE_LEN
    /\ bytes[HeaderLen - 1] = ARCHIVE_VERSION /\ bytes[HeaderLen] = CONTAINER_FLAG_ENCRYPTED
WrongPasswordResult == extract_zip_bytes_from_archive_bytes(SealedContainer, {<<2>>})
C16_DecryptFailuresAlike ==
    (ContainerRead /\ SealedInput(call.archive_bytes) /\ NonEmptyPassword(call.password)
        /\ ~ret.value.ok)
        => ret.value = WrongPasswordResult
\* The right password on a container whose ciphertext has one byte changed.
C16_Witness ==
    /\ ContainerRead /\ ~ret.value.ok /\ call.password = {<<1>>}
    /\ call.archive_bytes
          = Corrupted(SealedContainer, HeaderLen + ENCRYPTION_SALT_LEN + ENCRYPTION_NONCE_LEN + 1)
    /\ ~WrongPasswordResult.ok

(* C17: an OptionsData with version at least 1 and only non-negative preset
   ids, serialised with any seed the serialiser can draw, parses back to the
   same version, the same current preset and the same map of names. *)
WellFormedOptions(x) == x.version >= 1 /\ \A id \in DOMAIN x.preset_names : id >= 0
ReadBack == call.fn = "parse_options_data" /\ "written" \in DOMAIN call /\ ret.done
C17_CodecFixpoint ==
    (ReadBack /\ WellFormedOptions(call.written)) =>
        /\ ret.value.ok
        /\ ret.value.options = call.written
\* The value with the 130-byte name and the largest id was read back.
C17_Witness ==
    /\ ReadBack /\ WellFormedOptions(call.written) /\ ret.value.ok
    /\ I32Max \in DOMAIN call.written.preset_names
    /\ call.written.current_preset < 0
    /\ call.bytes[2] = 14

(* C18 as stated: a record of at least 11 bytes is refused with the checksum
   error exactly when its checksum byte differs from the square of the seed
   byte modulo 256. *)
RecordParsed == call.fn = "parse_options_data" /\ ret.done /\ Len(call.bytes) >= 11
ChecksumError == ~ret.value.ok /\ ret.value.err = "checksum"
TerminalEvents(p) == {i \in 1..Len(tp[p].ev) : tp[p].ev[i] \in {"complete", "failed"}}
\* C24: a run of install_snr_release that got past the validation of its
\* arguments emits no terminal event while it runs and has emitted exactly one
\* when it returns, as its last event: "complete" when, and only when, it
\* returns Ok, and then the staging directory has been promoted and the
\* settings saved; "failed" otherwise, and then no "complete".
C24_OneTerminalEvent ==
    \A p \in Procs :
        (tp[p].op = "install" /\ tp[p].err # "tag_required") =>
            IF tp[p].pc # "returned" THEN TerminalEvents(p) = {}
            ELSE /\ TerminalEvents(p) = {Len(tp[p].ev)}
                 /\ tp[p].ev[Len(tp[p].ev)] = "complete" <=> tp[p].result = "ok"
                 /\ tp[p].result = "ok" =>
                       /\ hist[p].promoted
                       /\ settings.selected_release_tag = tp[p].tag
\* An install that failed after its staging directory was promoted: "failed"
\* is its last event and there is no "complete".
C24_Witness ==
    \E p \in Procs :
        /\ CommandReturned(p, "install") /\ tp[p].result = "err"
        /\ hist[p].promoted
        /\ tp[p].ev[Len(tp[p].ev)] = "failed"
        /\ Len(tp[p].ev) >= 5

(* ------------------------------------------- claims on the preset import *)
NameKeys(preset_names) == {normalize_name_key(preset_names[id]) : id \in DOMAIN preset_names}
\* The keys in use when the i-th preset of the batch got its name: those of
\* the local Options.data and those given to the presets before it.
UsedBefore(i) ==
    NameKeys(imp.start.names)
        \cup {normalize_name_key(imp.imported[j].name) : j \in 1..(i - 1)}
NamedAsStated(i) ==
    LET base == imp.bases[i]
        name == imp.imported[i].name
        used == UsedBefore(i)
    IN IF normalize_name_key(base) \notin used THEN name = base
       ELSE \E k \in 2..(Cardinality(used) + 2) :
               /\ name = Candidate(base, k)
               /\ normalize_name_key(name) \notin used
               /\ \A j \in 2..(k - 1) : normalize_name_key(Candidate(base, j)) \in used

\* C19: in one import batch a preset keeps its base name when the key of that
\* name (trimmed, lower case) is not in use, and else gets base + " (k)" for
\* the smallest k >= 2 whose key is not in use, where the keys in use are those
\* of the names in the local Options.data and of the names given earlier in
\* the batch; so the names of a batch differ pairwise by key, and differ by
\* key from every name that was there before.
C19_UniqueImportNames ==
    /\ \A i \in 1..Len(imp.imported) : NamedAsStated(i)
    /\ \A i, j \in 1..Len(imp.imported) :
          i # j => normalize_name_key(imp.imported[i].name)
                       # normalize_name_key(imp.imported[j].name)
    /\ \A i \in 1..Len(imp.imported) :
          normalize_name_key(imp.imported[i].name) \notin NameKeys(imp.start.names)
\* Two sources named "Alpha", imported into a profile that has an "Alpha",
\* have become "Alpha (2)" and "Alpha (3)".
C19_Witness ==
    /\ imp.pc = "returned" /\ imp.result.ok
    /\ imp.start.names = (0 :> Alpha)
    /\ imp.bases = <<Alpha, Alpha>>
    /\ imp.imported[1].name = Alpha \o <<32, 40, 50, 41>>
    /\ imp.imported[2].name = Alpha \o <<32, 40, 51, 41>>

\* The ids of the PresetOptions_<id>.data files of a directory.
PresetFileIds(dir) ==
    {parse_preset_id_from_local_file_name(name).value :
        name \in {n \in DOMAIN dir : dir[n].is_file /\ parse_preset_id_from_local_file_name(n).ok}}
\* The ids in use when the i-th preset of the batch got its id: those of the
\* local Options.data map, those of the preset files on disk, and those given
\* to the presets before it.
IdsInUseBefore(i) ==
    (DOMAIN imp.start.names)
        \cup PresetFileIds(imp.start.dir)
        \cup {imp.imported[j].target_id : j \in 1..(i - 1)}
\* C20: the target id of an imported preset is 1 + the largest id among those
\* of the local Options.data map, of the PresetOptions_<id>.data files on disk
\* and of the presets imported before it in the batch, and 0 when there is
\* none; the target ids of a batch increase strictly and are never an id in
\* use, so an import replaces no preset data file that was there and no entry
\* of the name map that was there.
C20_TargetIds ==
    /\ \A i \in 1..Len(imp.imported) :
          /\ imp.imported[i].target_id =
                 IF IdsInUseBefore(i) = {} THEN 0 ELSE 1 + MaxOf(IdsInUseBefore(i))
          /\ imp.imported[i].target_id \notin IdsInUseBefore(i)
          /\ \A j \in 1..(i - 1) : imp.imported[j].target_id < imp.imported[i].target_id
    /\ \A name \in (DOMAIN imp.start.dir) \ {OPTIONS_FILE_NAME} :
          name \in DOMAIN saveData /\ saveData[name] = imp.start.dir[name]
    /\ \A id \in DOMAIN imp.start.names :
          /\ id \in DOMAIN imp.local_options.preset_names
          /\ imp.local_options.preset_names[id] = imp.start.names[id]
    /\ (imp.pc = "returned" /\ imp.result.ok) =>
          LET written == load_options_data(saveData)
          IN /\ written.ok /\ written.some
             /\ written.value.preset_names = imp.local_options.preset_names
\* Two presets imported where the largest id is that of a data file no name
\* refers to: they got the two ids after it, and their data is on disk.
C20_Witness ==
    /\ imp.pc = "returned" /\ imp.result.ok
    /\ DOMAIN imp.start.names = {0, 1}
    /\ PresetFileIds(imp.start.dir) = {0, 1, 7}
    /\ Len(imp.imported) = 2
    /\ imp.imported[1].target_id = 8 /\ imp.imported[2].target_id = 9
    /\ saveData[preset_file_name(8)].data # saveData[preset_file_name(9)].data

ImportSucceeded == imp.pc = "returned" /\ imp.result.ok
\* What the Options.data now in the profile's directory parses to.
WrittenOptions == load_options_data(saveData).value
\* C21 as stated: after a successful preset import the current preset written
\* to Options.data is a key of the written name map; it is the id of the first
\* imported preset when the value found was no key of the name map found, and
\* else the value found.
C21_CurrentPresetHealedAgainstOldMap ==
    ImportSucceeded =>
        /\ WrittenOptions.current_preset \in DOMAIN WrittenOptions.preset_names
        /\ WrittenOptions.current_preset =
               IF imp.start.current_preset \in DOMAIN imp.start.names
               THEN imp.start.current_preset
               ELSE imp.imported[1].target_id
\* C21, amended: after a successful preset import the current preset written
\* to Options.data is a key of the written name map; it is the id of the first
\* imported preset when the value found is no key of the written map (the map
\* found and the imported presets), and else the value found.
C21_CurrentPresetIsKey ==
    ImportSucceeded =>
        /\ WrittenOptions.current_preset \in DOMAIN WrittenOptions.preset_names
        /\ WrittenOptions.current_preset =
               IF imp.start.current_preset \in DOMAIN WrittenOptions.preset_names
               THEN imp.start.current_preset
               ELSE imp.imported[1].target_id
\* An import that found a current preset naming nothing and wrote the id of
\* its first preset in its place.
C21_Witness ==
    /\ ImportSucceeded
    /\ imp.start.names # EmptyFs
    /\ imp.start.current_preset \notin DOMAIN imp.start.names
    /\ WrittenOptions.current_preset = imp.imported[1].target_id
    /\ WrittenOptions.current_preset # imp.start.current_preset

(* ------------------------------------------ claims on the preset listing *)
Listed == call.fn = "list_presets_from_save_data_dir" /\ ret.done
\* The name map of the listed directory's Options.data.
ListedNames == parse_options_data(call.save_data_dir[OPTIONS_FILE_NAME].data)
\* C22: list_presets_from_save_data_dir returns one entry per preset of
\* Options.data, by ascending id, whose has_data_file is true exactly when the
\* file PresetOptions_<id>.data is there; a missing data file is told by the
\* flag and is no error; without an Options.data the list is empty.
C22_ListPresets ==
    Listed =>
        LET dir == call.save_data_dir
            listed == ret.value
        IN IF ~is_file(dir, OPTIONS_FILE_NAME)
           THEN listed.ok /\ listed.presets = <<>>
           ELSE IF ~ListedNames.ok THEN ~listed.ok
           ELSE LET preset_names == ListedNames.options.preset_names
                    presets == listed.presets
                IN /\ listed.ok
                   /\ Len(presets) = Cardinality(DOMAIN preset_names)
                   /\ {presets[i].id : i \in 1..Len(presets)} = DOMAIN preset_names
                   /\ \A i \in 1..(Len(presets) - 1) : presets[i].id < presets[i + 1].id
                   /\ \A i \in 1..Len(presets) :
                         presets[i].has_data_file
                             <=> /\ preset_file_name(presets[i].id) \in DOMAIN dir
                                 /\ dir[preset_file_name(presets[i].id)].is_file
\* A listing of three presets of which the first and the last have a data file
\* and the one between them has none.
C22_Witness ==
    /\ Listed /\ ret.value.ok
    /\ Len(ret.value.presets) = 3
    /\ ret.value.presets[1].has_data_file
    /\ ~ret.value.presets[2].has_data_file
    /\ ret.value.presets[3].has_data_file

(* ------------------------------------------- claims on the 7-bit lengths *)
SevenBitRead == call.fn = "read_7bit_encoded_int" /\ ret.done
SevenBitWritten == call.fn = "write_7bit_encoded_int" /\ ret.done
\* The bytes from the cursor on.
FromCursor == SubSeq(call.bytes, call.cursor + 1, Len(call.bytes))
\* The place, among the first five bytes, of the first byte whose top bit is
\* clear; 0 when there is none.
Terminator(rest) ==
    LET ends == {i \in 1..Len(rest) : i <= 5 /\ rest[i] < 128}
    IN IF ends = {} THEN 0 ELSE MinOf(ends)
\* The low seven bits of the first n bytes, the first byte the lowest.
RECURSIVE SumGroups(_, _)
SumGroups(rest, n) ==
    IF n = 0 THEN 0 ELSE SumGroups(rest, n - 1) + (rest[n] % 128) * (128 ^ (n - 1))
\* The fewest bytes that hold the value, seven bits each.
MinimalLen(value) ==
    IF value.hi > 0 THEN 5
    ELSE MinOf({n \in 1..4 : value.lo < 128 ^ n})
\* C23: read_7bit_encoded_int takes groups of seven bits, the lowest first,
\* from at most five bytes; it fails when the input ends before a byte with a
\* clear top bit and when five bytes in a row have the top bit set;
\* write_7bit_encoded_int writes the shortest encoding; and reading what was
\* written gives the value back and moves the cursor by the number of bytes
\* written, for every value that fits in five bytes.
C23_SevenBitCodec ==
    /\ SevenBitRead =>
          LET rest == FromCursor
              k == Terminator(rest)
          IN IF k = 0
             THEN /\ ~ret.value.ok
                  /\ ret.value.err = IF Len(rest) >= 5 THEN "invalid_7bit" ELSE "unexpected_end"
             ELSE /\ ret.value.ok
                  /\ ret.value.cursor = call.cursor + k
                  /\ ret.value.value.lo = SumGroups(rest, IF k = 5 THEN 4 ELSE k)
                  /\ ret.value.value.hi = IF k = 5 THEN rest[5] % 128 ELSE 0
    /\ (SevenBitWritten /\ call.value.hi < 128) =>
          /\ Len(ret.value) = MinimalLen(call.value)
          /\ \A i \in 1..(Len(ret.value) - 1) : ret.value[i] >= 128
          /\ ret.value[Len(ret.value)] < 128
    /\ (SevenBitRead /\ "written" \in DOMAIN call /\ call.written.value.hi < 128) =>
          /\ ret.value.ok
          /\ ret.value.value = call.written.value
          /\ ret.value.cursor = call.cursor + Len(call.written.bytes)
\* A value of five bytes, written after another byte and read back there.
C23_Witness ==
    /\ SevenBitRead /\ "written" \in DOMAIN call
    /\ call.cursor = 1
    /\ Len(call.written.bytes) = 5
    /\ ret.value.ok /\ ret.value.value = Wide(127, LimbBits - 1)
    /\ ret.value.cursor = 6

(* ------------------------------------ claims on the import's backup *)
\* C28: when import_migration_data returns the error that asks for manual
\* recovery (the rollback failed), the backup directory of the import and the
\* copies it holds are still on disk.
C28_BackupKeptWhenRollbackFailed ==
    (ImportReturned /\ mres.status = "err" /\ mres.manual) => bkExists
\* A return of that error after which files the user had are neither at the
\* targets nor in a backup.
BackedUpFilesLost ==
    /\ ImportReturned /\ mres.status = "err" /\ mres.manual /\ ~bkExists
    /\ \E f \in DOMAIN ManagedFiles(pre.profile) : f \notin DOMAIN profileFs

(* -------------------------------------- claims on the SaveData import *)
SaveDataBefore(p) == SubtreeAt(hist[p].pre, profile_save_data_path)
\* C27: whenever import_savedata_from_among_us_into_profile returns an error
\* and a SaveData directory existed at the target when it was called, the target
\* path holds the content it had at the call.
C27_ImportErrorKeepsSaveData ==
    \A p \in Procs :
        (/\ CommandReturned(p, "import") /\ tp[p].result = "err"
         /\ PathExists(hist[p].pre, profile_save_data_path))
            => SubtreeAt(tree, profile_save_data_path) = SaveDataBefore(p)
\* The error paths that return before promote_staging_to_profile moved the
\* target keep it.
ImportErrorBeforePromoteKeepsSaveData ==
    \A p \in Procs :
        (/\ CommandReturned(p, "import") /\ tp[p].result = "err"
         /\ ~hist[p].repair_failed
         /\ PathExists(hist[p].pre, profile_save_data_path))
            => SubtreeAt(tree, profile_save_data_path) = SaveDataBefore(p)

(* --------------------------------------- claims on the extraction progress *)
Report(current, total) == Some([current |-> current, total |-> total])
\* Entries processed since the last report made to the callback.
SinceLastReport(e) == e.i - e.last.value.current
\* A step of the loop that processed an entry without reporting it.
EntrySkipped ==
    /\ extract.pc = "loop" /\ extract'.pc = "loop"
    /\ extract'.i = extract.i + 1
    /\ extract'.last = extract.last
\* A step in which the callback was invoked after an earlier report.
ReportedAgain ==
    /\ extract.pc = "loop" /\ extract'.pc = "loop"
    /\ extract'.last # extract.last
\* C25: extract_zip reports (0, total) before any entry is processed and
\* (total, total) by the time a successful extraction returns; the reported
\* current values strictly increase; an entry is left unreported only when fewer
\* than max(total / 100, 1) entries were processed since the last report and the
\* minimum interval has not elapsed.
C25_ProgressReports ==
    /\ [](extract.pc # "none" /\ (extract.i > 0 \/ extract.pc = "ok" \/ extract.first.some)
            => extract.first = Report(0, extract.total))
    /\ [](extract.pc = "ok" => extract.last = Report(extract.total, extract.total))
    /\ [][ReportedAgain => /\ extract'.last.value.current > extract.last.value.current
                           /\ extract'.last.value.total = extract.total]_vars
    /\ [][EntrySkipped => /\ SinceLastReport(extract') < MaxOf({extract.total \div 100, 1})
                          /\ ~extract.interval_elapsed]_vars
\* A successful extraction of an archive large enough for entries to go
\* unreported, in which some did and the last one was reported.
C25_Witness ==
    /\ extract.pc = "ok" /\ extract.total >= 200
    /\ extract.skipped > 0 /\ extract.reports >= 2
    /\ extract.last = Report(extract.total, extract.total)

(* ------------------------------------------- claims on the derived key *)
\* C26: when build_snrdata_container or extract_zip_bytes_from_archive_bytes
\* returns after a key was derived, whether with Ok or with Err, the key buffer
\* holds zeros only.
C26_KeyZeroedOnReturn ==
    ret.done /\ call.fn \in {"build_snrdata_container", "extract_zip_bytes_from_archive_bytes"}
             /\ ret.value.key.derived
        => \A i \in DOMAIN ret.value.key.buffer : ret.value.key.buffer[i] = 0
\* The key is zeroed on the paths that return Ok.
KeyZeroedOnSuccess ==
    ret.done /\ call.fn \in {"build_snrdata_container", "extract_zip_bytes_from_archive_bytes"}
             /\ ret.value.key.derived /\ ret.value.result.ok
        => \A i \in DOMAIN ret.value.key.buffer : ret.value.key.buffer[i] = 0

(* --------------------------------- claims on the tracked game process *)
\* The launch calls that hold the lock between the check and the tracking.
Launching == {l \in Launches : launches[l].pc \in {"spawn", "persist", "track"}}
\* The children that were left to run untracked when try_wait failed in a monitor.
Orphaned == {l \in Launches : launches[l].orphaned}
\* A step of launch l that spawns a process.
Spawns(l) == l \notin os /\ l \in os'
\* A step in which launch l inspected a tracked child that was running.
ChecksRunningChild(l) ==
    /\ launches[l].pc = "idle" /\ launches'[l].pc # "idle"
    /\ GAME_PROCESS # 0 /\ GAME_PROCESS \in os
\* C29: a launch spawns a process only while it holds the GAME_PROCESS lock
\* that it took for the check, and only when no tracked child is running; a
\* launch that finds the tracked child running returns 'Game is already running'
\* and spawns nothing; at most one launch at a time is between its check and the
\* tracking of its child, and of the children that run at most one is, or is
\* about to be, the tracked one (the others were dropped by a monitor whose
\* try_wait failed).
C29_OneTrackedGame ==
    /\ [][\A l \in Launches :
            Spawns(l) => /\ gameLock = HeldByLaunch(l)
                         /\ GAME_PROCESS = 0 \/ GAME_PROCESS \notin os]_vars
    /\ [][\A l \in Launches :
            ChecksRunningChild(l) => /\ launches'[l].result = "already_running"
                                     /\ launches'[l].pc = "returned"
                                     /\ os' = os]_vars
    /\ [](\A l \in Launches :
            launches[l].result = "already_running" => ~launches[l].spawned /\ l \notin os)
    /\ [](Cardinality(Launching) <= 1)
    /\ [](Cardinality(os \ Orphaned) <= 1)
    /\ [](os \ Orphaned \subseteq {GAME_PROCESS} \cup Launching)
\* Two launches raced while a game was running: the first had spawned and
\* tracked it, the second was refused.
C29_Witness ==
    \E l1, l2 \in Launches :
        /\ l1 # l2 /\ GAME_PROCESS = l1 /\ l1 \in os
        /\ launches[l1].result = "ok"
        /\ launches[l2].result = "already_running"
        /\ monitors[l1] = "sleep"

\* A tracked game is running and its launch has persisted its PID and emitted
\* running=true; no failure was injected.
TrackedGameAnnounced ==
    /\ GAME_PROCESS # 0 /\ GAME_PROCESS \in os
    /\ launches[GAME_PROCESS].result = "ok"
    /\ monitors[GAME_PROCESS] \notin {"none", "emit_running"}
    /\ gameFaults = MaxGameFaults
\* C30: while a tracked game is running, after its launch persisted its PID and
\* emitted running=true, the last game-state-changed event is running=true and
\* the PID file holds the PID of the tracked process.
C30_StateReflectsTrackedGame ==
    TrackedGameAnnounced => lastEvent = "running" /\ pidFile = GAME_PROCESS
\* The monitor of an earlier game has cleared the PID file and emitted
\* running=false after the next game was launched and announced; is_game_running
\* was never called.
StaleMonitorOverwrites ==
    /\ TrackedGameAnnounced /\ query.pc = "idle"
    /\ lastEvent = "stopped" /\ pidFile = 0
    /\ \E m \in Launches : m # GAME_PROCESS /\ monitors[m] = "done"
====
